---- MODULE Spec2Model ----
(***************************************************************************)
(* Portfolio editing tools of ss889/ai-toolkit: the console manager        *)
(* (portfolio_manager.py), the chat window (portfolio_chat.py) and the     *)
(* clipboard watcher (portfolio_watcher.py), all working on one            *)
(* content.json and one git working tree.                                  *)
(*                                                                         *)
(* Text is a sequence of one-character strings, so that lower(), strip(),  *)
(* `in` and the regular expressions are computed character by character.   *)
(* A JSON object (the document, the contact map, an item) is a function    *)
(* whose domain is the set of keys present.                                *)
(***************************************************************************)
EXTENDS Naturals, Sequences, FiniteSets, TLC

(***************************************************************************)
(* Characters and Python's str operations                                  *)
(***************************************************************************)
UpperChars == <<"A","B","C","D","E","F","G","H","I","J","K","L","M",
                "N","O","P","Q","R","S","T","U","V","W","X","Y","Z">>
LowerChars == <<"a","b","c","d","e","f","g","h","i","j","k","l","m",
                "n","o","p","q","r","s","t","u","v","w","x","y","z">>
DigitChars == {"0","1","2","3","4","5","6","7","8","9"}

Range(s) == {s[i] : i \in DOMAIN s}

IsUpper(c) == \E i \in DOMAIN UpperChars : UpperChars[i] = c

\* str.lower() on one character
LowerChar(c) ==
    IF IsUpper(c)
    THEN LowerChars[CHOOSE i \in DOMAIN UpperChars : UpperChars[i] = c]
    ELSE c

\* str.lower()
Lower(s) == CHOOSE r \in {[i \in 1..Len(v) |-> LowerChar(v[i])] : v \in {s}} : TRUE

\* str.strip(chars): drop leading and trailing characters of the set
StripSet(s, cs) ==
    CHOOSE r \in {IF keep = {} THEN <<>>
                  ELSE SubSeq(v, CHOOSE i \in keep : \A j \in keep : i <= j,
                                 CHOOSE i \in keep : \A j \in keep : i >= j) :
                  v \in {s}, keep \in {{i \in 1..Len(s) : s[i] \notin cs}}} : TRUE

\* str.strip()
Strip(s) == StripSet(s, {" ", "\n", "\t"})

\* s[:n]
Take(s, n) == IF Len(s) <= n THEN s ELSE SubSeq(s, 1, n)

\* s[n:] with n >= 0
Drop(s, n) == IF n >= Len(s) THEN <<>> ELSE SubSeq(s, n + 1, Len(s))

\* sub == s[i+1 : i+1+len(sub)]
MatchAt(sub, s, i) ==
    /\ i + Len(sub) <= Len(s)
    /\ \A j \in 1..Len(sub) : s[i + j] = sub[j]

\* Python's `sub in s`
Contains(sub, s) == \E v \in {s} : \E i \in 0..Len(v) : MatchAt(sub, v, i)

\* str.startswith
StartsWith(s, pre) == MatchAt(pre, s, 0)

\* the smallest element of a non-empty set of naturals
Min(S) == CHOOSE x \in S : \A y \in S : x <= y

\* the largest element of a non-empty set of naturals
Max(S) == CHOOSE x \in S : \A y \in S : x >= y

(***************************************************************************)
(* JSON objects: dict.get, `key in dict`, dict[key] = value                *)
(***************************************************************************)
EmptyMap == [k \in {} |-> <<>>]

Has(d, k) == k \in DOMAIN d

Get(d, k, default) == IF k \in DOMAIN d THEN d[k] ELSE default

Put(d, k, v) == [x \in (DOMAIN d) \cup {k} |-> IF x = k THEN v ELSE d[x]]

\* the kept elements of s[lo..hi] in their order, by halves
RECURSIVE FilterRange(_, _, _, _)
FilterRange(s, keepIdx, lo, hi) ==
    IF lo > hi THEN <<>>
    ELSE IF lo = hi THEN (IF lo \in keepIdx THEN <<s[lo]>> ELSE <<>>)
    ELSE LET mid == (lo + hi) \div 2
         IN  FilterRange(s, keepIdx, lo, mid) \o FilterRange(s, keepIdx, mid + 1, hi)

\* a list comprehension [x for x in s if Keep(x)]
FilterSeq(s, keepIdx) == FilterRange(s, keepIdx, 1, Len(s))

(***************************************************************************)
(* Keywords and literals of the three programs                             *)
(***************************************************************************)
kShow     == <<"s","h","o","w">>
kDisplay  == <<"d","i","s","p","l","a","y">>
kCurrent  == <<"c","u","r","r","e","n","t">>
kList     == <<"l","i","s","t">>
kView     == <<"v","i","e","w">>
kBio      == <<"b","i","o">>
kHeadline == <<"h","e","a","d","l","i","n","e">>
kTitle    == <<"t","i","t","l","e">>
kEmail    == <<"e","m","a","i","l">>
kProject  == <<"p","r","o","j","e","c","t">>
kService  == <<"s","e","r","v","i","c","e">>
kAdd      == <<"a","d","d">>
kRemove   == <<"r","e","m","o","v","e">>
kUpdate   == <<"u","p","d","a","t","e">>
kChange   == <<"c","h","a","n","g","e">>
kSet      == <<"s","e","t">>
kMake     == <<"m","a","k","e">>
kYes      == <<"y">>
\* no prompt was shown
NoAnswer  == <<"-">>
\* the default image of a project
DefaultImage == "assets/project.svg"

QuoteChars == {"\"", "'"}

(***************************************************************************)
(* The mutators of portfolio_manager.py                                    *)
(***************************************************************************)
update_bio(content, new_bio) == Put(content, "bio", new_bio)

update_headline(content, new_headline) == Put(content, "headline", new_headline)

update_title(content, new_title) == Put(content, "title", new_title)

\* an update that makes a new contact map of the address alone
update_email_fresh(content, new_email) == Put(content, "contact", [email |-> new_email])

update_email(content, new_email) ==
    Put(content, "contact", Put(Get(content, "contact", EmptyMap), "email", new_email))

add_service(content, title, description) ==
    Put(content, "services",
        Append(Get(content, "services", <<>>),
               [title |-> title, description |-> description]))

\* an add that skips a title the list already holds
add_project_dedup(content, title, description) ==
    IF \E i \in 1..Len(Get(content, "projects", <<>>)) : content.projects[i].title = title
    THEN content
    ELSE Put(content, "projects",
             Append(Get(content, "projects", <<>>),
                    [title |-> title, description |-> description, image |-> DefaultImage]))

add_project(content, title, description) ==
    Put(content, "projects",
        Append(Get(content, "projects", <<>>),
               [title |-> title, description |-> description, image |-> DefaultImage]))

\* a filter that compares the titles as written
RemoveMatching_caseSensitive(items, name) ==
    FilterSeq(items, {i \in 1..Len(items) : ~Contains(name, Get(items[i], "title", <<>>))})

\* a filter that drops the first matching item only
RemoveMatching_firstOnly(items, name) ==
    LET hits == {i \in 1..Len(items) : Contains(name, Lower(Get(items[i], "title", <<>>)))}
    IN  IF hits = {} THEN items ELSE FilterSeq(items, (1..Len(items)) \ {Min(hits)})

\* a filter that hands back the survivors last to first
RemoveMatching_reversed(items, name) ==
    LET kept == FilterSeq(items, {i \in 1..Len(items) :
                                    ~Contains(name, Lower(Get(items[i], "title", <<>>)))})
    IN  [i \in 1..Len(kept) |-> kept[Len(kept) + 1 - i]]

\* [p for p in items if name not in p.get('title', '').lower()]
RemoveMatching(items, name) ==
    FilterSeq(items, {i \in 1..Len(items) :
                        ~Contains(name, Lower(Get(items[i], "title", <<>>)))})

remove_project(content, project_name) ==
    LET old  == Get(content, "projects", <<>>)
        kept == RemoveMatching(old, Lower(project_name))
    IN  [content |-> Put(content, "projects", kept), removed |-> Len(old) - Len(kept)]

remove_service(content, service_name) ==
    LET old  == Get(content, "services", <<>>)
        kept == RemoveMatching(old, Lower(service_name))
    IN  [content |-> Put(content, "services", kept), removed |-> Len(old) - Len(kept)]

(***************************************************************************)
(* Regular expressions applied to the user's utterance                     *)
(***************************************************************************)
NoMatch == [found |-> FALSE, val |-> <<>>]

Found(v) == [found |-> TRUE, val |-> v]

\* the length of the longest run of characters satisfying the set, from index k
RunLen(s, k, cs) ==
    IF k > Len(s) \/ s[k] \notin cs THEN 0
    ELSE LET stops == {j \in k..Len(s) : s[j] \notin cs}
         IN  IF stops = {} THEN Len(s) - k + 1 ELSE Min(stops) - k

\* the length of the longest run of characters outside the set, from index k
RunLenNot(s, k, cs) ==
    IF k > Len(s) \/ s[k] \in cs THEN 0
    ELSE LET stops == {j \in k..Len(s) : s[j] \in cs}
         IN  IF stops = {} THEN Len(s) - k + 1 ELSE Min(stops) - k

SpaceChars == {" ", "\n", "\t"}

\* ["']?([^"']+)["']? with q characters already consumed
HintTail(u, q) ==
    LET from == IF q < Len(u) /\ u[q + 1] \in QuoteChars THEN q + 2 ELSE q + 1
        n    == RunLenNot(u, from, QuoteChars)
    IN  IF n >= 1 THEN Found(SubSeq(u, from, from + n - 1)) ELSE NoMatch

\* (?:project\s+)?["']?([^"']+)["']? with p characters already consumed
HintAfterSpace(u, kw, p) ==
    LET m    == IF MatchAt(kw, u, p) THEN RunLen(u, p + Len(kw) + 1, SpaceChars) ELSE 0
        good == {b \in 1..m : HintTail(u, p + Len(kw) + b).found}
    IN  IF good # {} THEN HintTail(u, p + Len(kw) + Max(good)) ELSE HintTail(u, p)

\* \s+(?:project\s+)?["']?([^"']+)["']? with e characters already consumed
HintAfterRemove(u, kw, e) ==
    LET w    == RunLen(u, e + 1, SpaceChars)
        good == {a \in 1..w : HintAfterSpace(u, kw, e + a).found}
    IN  IF good # {} THEN HintAfterSpace(u, kw, e + Max(good)) ELSE NoMatch

\* re.search(r'remove\s+(?:project\s+)?["\']?([^"\']+)["\']?', user_lower), group 1
RemoveHintSearch(u, kw) ==
    LET starts == {i \in 0..Len(u) : MatchAt(kRemove, u, i)
                                     /\ HintAfterRemove(u, kw, i + Len(kRemove)).found}
    IN  IF starts = {} THEN NoMatch
        ELSE HintAfterRemove(u, kw, Min(starts) + Len(kRemove))

EmailChars == Range(UpperChars) \cup Range(LowerChars) \cup DigitChars \cup {"_", ".", "-"}

WordChars == Range(UpperChars) \cup Range(LowerChars) \cup DigitChars \cup {"_"}

\* the start of the run of e-mail characters that ends at index j
RunStart(s, j, cs) ==
    LET stops == {i \in 1..j : s[i] \notin cs}
    IN  IF stops = {} THEN 1 ELSE Max(stops) + 1

\* the dots of the domain after the '@' at index j that a word character follows
EmailDots(u, j) ==
    LET b == j + RunLen(u, j + 1, EmailChars)
    IN  {k \in (j + 2)..(b - 1) : u[k] = "." /\ u[k + 1] \in WordChars}

\* a search that takes the run of characters around any @ for an address
EmailSearch_anyAt(u) ==
    LET ats == {j \in 1..Len(u) : u[j] = "@"}
    IN  IF ats = {} THEN NoMatch
        ELSE Found(SubSeq(u, RunStart(u, Min(ats) - 1, EmailChars),
                          Min(ats) + RunLen(u, Min(ats) + 1, EmailChars)))

\* re.search(r'[\w\.-]+@[\w\.-]+\.\w+', user_input), group 0
EmailSearch(u) ==
    LET ats == {j \in 2..Len(u) : u[j] = "@" /\ u[j - 1] \in EmailChars
                                  /\ EmailDots(u, j) # {}}
    IN  IF ats = {} THEN NoMatch
        ELSE LET j == Min(ats)
                 k == Max(EmailDots(u, j))
             IN  Found(SubSeq(u, RunStart(u, j - 1, EmailChars),
                              k + RunLen(u, k + 1, WordChars)))

(***************************************************************************)
(* The reply of the generative backend.  fail: the request raised (the     *)
(* callers get None).  text: the reply.  fenced, raw, titled, whole: what  *)
(* json.loads makes of the code-fenced object, of the first brace-         *)
(* delimited object with a quoted key, of the first brace-delimited object *)
(* that holds "title", and of the whole reply ("none": the pattern does    *)
(* not match or json.loads raises, "obj": the object).  tfrag, dfrag:      *)
(* group 1 of the `title: ...` and `description: ...` patterns.            *)
(***************************************************************************)
NoJson == [st |-> "none", obj |-> EmptyMap]

Json(o) == [st |-> "obj", obj |-> o]

\* Python's truth value of a reply: None and '' are false
Truthy(resp) == ~resp.fail /\ resp.text # <<>>

TextReply(text) ==
    [fail |-> FALSE, text |-> text, fenced |-> NoJson, raw |-> NoJson, titled |-> NoJson,
     whole |-> NoJson, tfrag |-> NoMatch, dfrag |-> NoMatch]

\* a reply that is one flat JSON object and nothing else
JsonReply(text, o) ==
    [fail |-> FALSE, text |-> text, fenced |-> NoJson, raw |-> Json(o),
     titled |-> IF Has(o, "title") THEN Json(o) ELSE NoJson, whole |-> Json(o),
     tfrag |-> NoMatch, dfrag |-> NoMatch]

\* requests.post raised or the status was not 200
FailedReply ==
    [fail |-> TRUE, text |-> <<>>, fenced |-> NoJson, raw |-> NoJson, titled |-> NoJson,
     whole |-> NoJson, tfrag |-> NoMatch, dfrag |-> NoMatch]

\* the acceptance thresholds and the length caps
BioMinLen == 20
HeadlineMinLen == 5
TitleMinLen == 2
ParagraphMinLen == 50
HeadlineCap == 100
TitleCap == 200
BioCap == 500

\* a clean-up that keeps the reply as it came
CleanResponse_asIs(text) == text

\* portfolio_manager.py: response.strip().strip('"').strip()
CleanResponse(text) == Strip(StripSet(Strip(text), {"\""}))

BoilerplatePrefixes ==
    { <<"h","e","r","e","'","s">>, <<"h","e","r","e"," ","i","s">>, <<"n","e","w">>,
      <<"u","p","d","a","t","e","d">>, <<"s","u","g","g","e","s","t","e","d">> }

\* re.sub(r'^(here\'s|here is|new|updated|suggested).*?:\s*', '', text, flags=re.IGNORECASE)
StripBoilerplate(text) ==
    LET low  == Lower(text)
        pres == {q \in BoilerplatePrefixes : StartsWith(low, q)}
    IN  IF pres = {} THEN text
        ELSE LET n      == Len(CHOOSE q \in pres : TRUE)
                 colons == {c \in (n + 1)..Len(text) :
                              /\ text[c] = ":"
                              /\ \A j \in (n + 1)..(c - 1) : text[j] # "\n"}
             IN  IF colons = {} THEN text
                 ELSE LET c == Min(colons)
                      IN  Drop(text, c + RunLen(text, c + 1, SpaceChars))

\* re.sub(r'^["\'"]|["\'"]$', '', text)
StripOneQuote(text) ==
    LET a == IF Len(text) >= 1 /\ text[1] \in QuoteChars THEN Drop(text, 1) ELSE text
    IN  IF Len(a) >= 1 /\ a[Len(a)] \in QuoteChars THEN Take(a, Len(a) - 1) ELSE a

\* text.split('\n')[0]
FirstLine(text) ==
    LET nls == {i \in 1..Len(text) : text[i] = "\n"}
    IN  IF nls = {} THEN text ELSE Take(text, Min(nls) - 1)

\* re.sub(r'\*\*|\*|##|#', '', text)
StripMarkdown(text) == FilterSeq(text, {i \in 1..Len(text) : text[i] \notin {"*", "#"}})

\* text.split('\n\n')
RECURSIVE SplitParagraphs(_)
SplitParagraphs(text) ==
    LET seps == {i \in 1..(Len(text) - 1) : text[i] = "\n" /\ text[i + 1] = "\n"}
    IN  IF seps = {} THEN <<text>>
        ELSE <<Take(text, Min(seps) - 1)>> \o SplitParagraphs(Drop(text, Min(seps) + 1))

\* PortfolioChat.extract_content
extract_content(response, content_type) ==
    LET text == StripOneQuote(Strip(StripBoilerplate(Strip(response))))
    IN  IF content_type = "headline"
        THEN Take(StripSet(Strip(FirstLine(text)), QuoteChars), HeadlineCap)
        ELSE IF content_type = "bio"
        THEN LET md   == StripMarkdown(text)
                 ps   == SplitParagraphs(md)
                 long == {i \in 1..Len(ps) : Len(Strip(ps[i])) > ParagraphMinLen}
             IN  IF long # {} THEN Take(Strip(ps[Min(long)]), BioCap) ELSE Take(md, BioCap)
        ELSE IF content_type = "title" THEN Take(text, TitleCap) ELSE Take(text, BioCap)

NoObject == [found |-> FALSE, obj |-> EmptyMap]

Object(o) == [found |-> TRUE, obj |-> o]

\* PortfolioChat.extract_json
extract_json(resp) ==
    IF resp.fenced.st = "obj" THEN Object(resp.fenced.obj)
    ELSE IF resp.titled.st = "obj" THEN Object(resp.titled.obj)
    ELSE IF resp.tfrag.found
    THEN Object([title |-> StripSet(Strip(resp.tfrag.val), {"\""}),
                 description |-> IF resp.dfrag.found
                                 THEN StripSet(Strip(resp.dfrag.val), {"\""})
                                 ELSE <<>>])
    ELSE NoObject

\* portfolio_manager.py: extract_json_from_response
extract_json_from_response(resp) ==
    IF resp.fenced.st = "obj" THEN Object(resp.fenced.obj)
    ELSE IF resp.raw.st = "obj" THEN Object(resp.raw.obj)
    ELSE NoObject

\* process_command: extract_json_from_response, then json.loads of the whole reply
ItemData(resp) ==
    LET d == extract_json_from_response(resp)
    IN  IF d.found /\ d.obj # EmptyMap THEN d
        ELSE IF resp.whole.st = "obj" THEN Object(resp.whole.obj) ELSE d

\* `if project and 'title' in project`
HasTitleKey(d) == d.found /\ d.obj # EmptyMap /\ Has(d.obj, "title")

(***************************************************************************)
(* The branch each program takes for an utterance                          *)
(***************************************************************************)
HasAny(u, kws) == \E k \in kws : Contains(k, u)

Verbs4 == {kUpdate, kChange, kSet, kMake}

Verbs3 == {kUpdate, kChange, kSet}

\* the if-chain of portfolio_manager.process_command
MgrIntent(user_input) ==
    LET u == Strip(Lower(user_input))
    IN  IF HasAny(u, {kShow, kDisplay, kCurrent, kList}) THEN "ShowSummary"
        ELSE IF Contains(kBio, u) /\ HasAny(u, Verbs4) THEN "UpdateBio"
        ELSE IF Contains(kHeadline, u) /\ HasAny(u, Verbs4) THEN "UpdateHeadline"
        ELSE IF Contains(kTitle, u) /\ HasAny(u, Verbs4) THEN "UpdateTitle"
        ELSE IF Contains(kEmail, u) /\ HasAny(u, Verbs3) THEN "UpdateEmail"
        ELSE IF Contains(kProject, u) /\ Contains(kAdd, u) THEN "AddProject"
        ELSE IF Contains(kProject, u) /\ Contains(kRemove, u) THEN "RemoveProject"
        ELSE IF Contains(kService, u) /\ Contains(kAdd, u) THEN "AddService"
        ELSE IF Contains(kService, u) /\ Contains(kRemove, u) THEN "RemoveService"
        ELSE "General"

\* a chain that tests email before the items
ChatIntent_emailFirst(user_input) ==
    LET u == Lower(user_input)
    IN  IF HasAny(u, {kShow, kDisplay, kCurrent, kView}) THEN "ShowSummary"
        ELSE IF Contains(kBio, u) /\ HasAny(u, Verbs4) THEN "UpdateBio"
        ELSE IF Contains(kHeadline, u) /\ HasAny(u, Verbs3) THEN "UpdateHeadline"
        ELSE IF Contains(kTitle, u) /\ HasAny(u, Verbs3) THEN "UpdateTitle"
        ELSE IF Contains(kEmail, u) THEN "UpdateEmail"
        ELSE IF Contains(kProject, u) /\ Contains(kAdd, u) THEN "AddProject"
        ELSE IF Contains(kService, u) /\ Contains(kAdd, u) THEN "AddService"
        ELSE IF Contains(kProject, u) /\ Contains(kRemove, u) THEN "RemoveProject"
        ELSE IF Contains(kService, u) /\ Contains(kRemove, u) THEN "RemoveService"
        ELSE "General"

\* the show test of PortfolioChat.process_message, then the if/elif chain of
\* PortfolioChat.process_llm_response
ChatIntent(user_input) ==
    LET u == Lower(user_input)
    IN  IF HasAny(u, {kShow, kDisplay, kCurrent, kView}) THEN "ShowSummary"
        ELSE IF Contains(kBio, u) /\ HasAny(u, Verbs4) THEN "UpdateBio"
        ELSE IF Contains(kHeadline, u) /\ HasAny(u, Verbs3) THEN "UpdateHeadline"
        ELSE IF Contains(kTitle, u) /\ HasAny(u, Verbs3) THEN "UpdateTitle"
        ELSE IF Contains(kProject, u) /\ Contains(kAdd, u) THEN "AddProject"
        ELSE IF Contains(kService, u) /\ Contains(kAdd, u) THEN "AddService"
        ELSE IF Contains(kProject, u) /\ Contains(kRemove, u) THEN "RemoveProject"
        ELSE IF Contains(kService, u) /\ Contains(kRemove, u) THEN "RemoveService"
        ELSE IF Contains(kEmail, u) THEN "UpdateEmail"
        ELSE "General"

(***************************************************************************)
(* portfolio_manager.process_command.  resp is the reply chat_with_ollama  *)
(* gives when the branch asks for one; confirm is the answer to the        *)
(* "Apply this change? (y/n)" prompt after .strip().lower().               *)
(***************************************************************************)
Unchanged(content) == [content |-> content, changed |-> FALSE]

Changed(content) == [content |-> content, changed |-> TRUE]

\* the prompts of input(): a confirmation is asked exactly when a candidate passed
MgrPrompts(user_input, resp) ==
    LET intent == MgrIntent(user_input)
    IN  CASE intent = "UpdateBio" -> Truthy(resp) /\ Len(CleanResponse(resp.text)) > BioMinLen
          [] intent = "UpdateHeadline" ->
               Truthy(resp) /\ Len(CleanResponse(resp.text)) > HeadlineMinLen
          [] intent = "UpdateTitle" -> Truthy(resp) /\ Len(CleanResponse(resp.text)) > TitleMinLen
          [] intent = "UpdateEmail" -> EmailSearch(user_input).found
          [] intent \in {"AddProject", "AddService"} -> Truthy(resp) /\ HasTitleKey(ItemData(resp))
          [] OTHER -> FALSE

\* the branches that call chat_with_ollama
MgrAsks(intent) ==
    intent \in {"UpdateBio", "UpdateHeadline", "UpdateTitle", "AddProject", "AddService",
                "General"}

\* anything but a plain no is taken for a yes
Affirmed_unlessNo(confirm) == confirm # <<"n">>

\* if confirm == 'y':
Affirmed(confirm) == confirm = kYes

process_command(user_input, content, resp, confirm) ==
    LET user_input_lower == Strip(Lower(user_input))
        intent == MgrIntent(user_input)
    IN  CASE intent = "ShowSummary" -> Unchanged(content)
          [] intent = "UpdateBio" ->
               LET new_bio == CleanResponse(resp.text)
               IN  IF Truthy(resp) /\ Len(new_bio) > BioMinLen /\ Affirmed(confirm)
                   THEN Changed(update_bio(content, new_bio))
                   ELSE Unchanged(content)
          [] intent = "UpdateHeadline" ->
               LET new_headline == CleanResponse(resp.text)
               IN  IF Truthy(resp) /\ Len(new_headline) > HeadlineMinLen /\ Affirmed(confirm)
                   THEN Changed(update_headline(content, new_headline))
                   ELSE Unchanged(content)
          [] intent = "UpdateTitle" ->
               LET new_title == CleanResponse(resp.text)
               IN  IF Truthy(resp) /\ Len(new_title) > TitleMinLen /\ Affirmed(confirm)
                   THEN Changed(update_title(content, new_title))
                   ELSE Unchanged(content)
          [] intent = "UpdateEmail" ->
               LET email_match == EmailSearch(user_input)
               IN  IF email_match.found /\ Affirmed(confirm)
                   THEN Changed(update_email(content, email_match.val))
                   ELSE Unchanged(content)
          [] intent = "AddProject" ->
               LET project_data == ItemData(resp)
               IN  IF Truthy(resp) /\ HasTitleKey(project_data) /\ Affirmed(confirm)
                   THEN Changed(add_project(content, project_data.obj["title"],
                                            Get(project_data.obj, "description", <<>>)))
                   ELSE Unchanged(content)
          [] intent = "RemoveProject" ->
               LET match == RemoveHintSearch(user_input_lower, kProject)
               IN  IF match.found
                   THEN LET r == remove_project(content, Strip(match.val))
                        IN  [content |-> r.content, changed |-> r.removed > 0]
                   ELSE Unchanged(content)
          [] intent = "AddService" ->
               LET service_data == ItemData(resp)
               IN  IF Truthy(resp) /\ HasTitleKey(service_data) /\ Affirmed(confirm)
                   THEN Changed(add_service(content, service_data.obj["title"],
                                            Get(service_data.obj, "description", <<>>)))
                   ELSE Unchanged(content)
          [] intent = "RemoveService" ->
               LET match == RemoveHintSearch(user_input_lower, kService)
               IN  IF match.found
                   THEN LET r == remove_service(content, Strip(match.val))
                        IN  [content |-> r.content, changed |-> r.removed > 0]
                   ELSE Unchanged(content)
          [] OTHER -> Unchanged(content)

(***************************************************************************)
(* PortfolioChat.process_llm_response, reached with a truthy reply and an  *)
(* utterance that is no show request.  It returns self.portfolio after the *)
(* call and the value of edited.                                           *)
(***************************************************************************)
Edited(portfolio, edited) == [portfolio |-> portfolio, edited |-> edited]

process_llm_response(user_input, response, portfolio) ==
    LET user_lower == Lower(user_input)
        intent == ChatIntent(user_input)
    IN  CASE intent = "UpdateBio" ->
               LET new_bio == extract_content(response.text, "bio")
               IN  IF new_bio # <<>> /\ Len(new_bio) > BioMinLen
                   THEN Edited(Put(portfolio, "bio", new_bio), TRUE)
                   ELSE Edited(portfolio, FALSE)
          [] intent = "UpdateHeadline" ->
               LET new_headline == extract_content(response.text, "headline")
               IN  IF new_headline # <<>> /\ Len(new_headline) > HeadlineMinLen
                   THEN Edited(Put(portfolio, "headline", new_headline), TRUE)
                   ELSE Edited(portfolio, FALSE)
          [] intent = "UpdateTitle" ->
               LET new_title == extract_content(response.text, "title")
               IN  IF new_title # <<>> /\ Len(new_title) > TitleMinLen
                   THEN Edited(Put(portfolio, "title", new_title), TRUE)
                   ELSE Edited(portfolio, FALSE)
          [] intent = "AddProject" ->
               LET project == extract_json(response)
               IN  IF HasTitleKey(project)
                   THEN Edited(Put(portfolio, "projects",
                                   Append(Get(portfolio, "projects", <<>>),
                                          [title |-> Get(project.obj, "title", <<>>),
                                           description |-> Get(project.obj, "description", <<>>),
                                           image |-> DefaultImage])), TRUE)
                   ELSE Edited(portfolio, FALSE)
          [] intent = "AddService" ->
               LET service == extract_json(response)
               IN  IF HasTitleKey(service)
                   THEN Edited(Put(portfolio, "services",
                                   Append(Get(portfolio, "services", <<>>),
                                          [title |-> Get(service.obj, "title", <<>>),
                                           description |-> Get(service.obj, "description", <<>>)])),
                               TRUE)
                   ELSE Edited(portfolio, FALSE)
          [] intent = "RemoveProject" ->
               LET match == RemoveHintSearch(user_lower, kProject)
               IN  IF match.found
                   THEN LET old  == Get(portfolio, "projects", <<>>)
                            kept == RemoveMatching(old, Strip(match.val))
                        IN  Edited(Put(portfolio, "projects", kept), Len(kept) < Len(old))
                   ELSE Edited(portfolio, FALSE)
          [] intent = "RemoveService" ->
               LET match == RemoveHintSearch(user_lower, kService)
               IN  IF match.found
                   THEN LET old  == Get(portfolio, "services", <<>>)
                            kept == RemoveMatching(old, Strip(match.val))
                        IN  Edited(Put(portfolio, "services", kept), Len(kept) < Len(old))
                   ELSE Edited(portfolio, FALSE)
          [] intent = "UpdateEmail" ->
               LET email_match == EmailSearch(user_input)
               IN  IF email_match.found
                   THEN Edited(Put(portfolio, "contact",
                                   Put(Get(portfolio, "contact", EmptyMap), "email",
                                       email_match.val)), TRUE)
                   ELSE Edited(portfolio, FALSE)
          [] OTHER -> Edited(portfolio, FALSE)

(***************************************************************************)
(* portfolio_watcher.py: COMMAND_PATTERNS, searched with                   *)
(* re.DOTALL | re.IGNORECASE                                               *)
(***************************************************************************)
cEDIT   == <<"[","P","O","R","T","F","O","L","I","O","_","E","D","I","T",":">>
cADD    == <<"[","P","O","R","T","F","O","L","I","O","_","A","D","D",":">>
cREMOVE == <<"[","P","O","R","T","F","O","L","I","O","_","R","E","M","O","V","E",":">>
cMARK   == <<"[","P","O","R","T","F","O","L","I","O","_">>

\* a literal of the pattern at offset i, ignoring case
MatchAtCI(lit, t, i) ==
    /\ i + Len(lit) <= Len(t)
    /\ \A j \in 1..Len(lit) : LowerChar(t[i + j]) = LowerChar(lit[j])

\* \[PORTFOLIO_X:\s*field\s*\| at offset i: the index of the '|', or 0
TokenHead(t, i, head, field) ==
    IF ~MatchAtCI(head, t, i) THEN 0
    ELSE LET a == i + Len(head) + RunLen(t, i + Len(head) + 1, SpaceChars)
         IN  IF ~MatchAtCI(field, t, a) THEN 0
             ELSE LET k == a + Len(field) + RunLen(t, a + Len(field) + 1, SpaceChars) + 1
                  IN  IF k <= Len(t) /\ t[k] = "|" THEN k ELSE 0

\* \s*(.+?)\] after the '|' at index k
TokenTail(t, k) ==
    LET w      == RunLen(t, k + 1, SpaceChars)
        q      == k + w
        closes == {r \in (q + 2)..Len(t) : t[r] = "]"}
    IN  IF closes # {} THEN Found(SubSeq(t, q + 1, Min(closes) - 1))
        ELSE IF w >= 1 /\ q + 1 <= Len(t) /\ t[q + 1] = "]" THEN Found(<<t[q]>>)
        ELSE NoMatch

\* re.search of an EDIT or REMOVE pattern: group 1
TokenSearch(t, head, field) ==
    LET starts == {i \in 0..Len(t) :
                     /\ TokenHead(t, i, head, field) > 0
                     /\ TokenTail(t, TokenHead(t, i, head, field)).found}
    IN  IF starts = {} THEN NoMatch
        ELSE TokenTail(t, TokenHead(t, Min(starts), head, field))

NoMatch2 == [found |-> FALSE, g1 |-> <<>>, g2 |-> <<>>]

\* (.+?)\s*\|\s*(.+?)\] with group 1 starting after q characters
AddGroups(t, q) ==
    LET bar(e) == e + RunLen(t, e + 1, SpaceChars) + 1
        ends   == {e \in (q + 1)..Len(t) :
                     /\ bar(e) <= Len(t)
                     /\ t[bar(e)] = "|"
                     /\ TokenTail(t, bar(e)).found}
    IN  IF ends = {} THEN NoMatch2
        ELSE [found |-> TRUE,
              g1 |-> SubSeq(t, q + 1, Min(ends)),
              g2 |-> TokenTail(t, bar(Min(ends))).val]

\* \s*(.+?)\s*\|\s*(.+?)\] after the '|' at index k
AddTail(t, k) ==
    LET w    == RunLen(t, k + 1, SpaceChars)
        good == {a \in 0..w : AddGroups(t, k + a).found}
    IN  IF good = {} THEN NoMatch2 ELSE AddGroups(t, k + Max(good))

\* re.search of an ADD pattern: groups 1 and 2
AddSearch(t, kind) ==
    LET starts == {i \in 0..Len(t) :
                     /\ TokenHead(t, i, cADD, kind) > 0
                     /\ AddTail(t, TokenHead(t, i, cADD, kind)).found}
    IN  IF starts = {} THEN NoMatch2
        ELSE AddTail(t, TokenHead(t, Min(starts), cADD, kind))

(***************************************************************************)
(* portfolio_watcher.process_commands, from the loaded portfolio to the    *)
(* test of `changed`: the eight searches, each applied to the result of    *)
(* the one before.                                                         *)
(***************************************************************************)
Step(portfolio, changed) == [portfolio |-> portfolio, changed |-> changed]

ApplyEdit(st, text, field) ==
    LET match == TokenSearch(text, cEDIT, field)
    IN  IF match.found
        THEN Step(Put(st.portfolio,
                      CASE field = kBio -> "bio"
                        [] field = kHeadline -> "headline"
                        [] OTHER -> "title",
                      Strip(match.val)), TRUE)
        ELSE st

ApplyEmail(st, text) ==
    LET match == TokenSearch(text, cEDIT, kEmail)
    IN  IF match.found
        THEN Step(Put(st.portfolio, "contact",
                      Put(Get(st.portfolio, "contact", EmptyMap), "email", Strip(match.val))),
                  TRUE)
        ELSE st

ApplyAddProject(st, text) ==
    LET match == AddSearch(text, kProject)
    IN  IF match.found
        THEN Step(Put(st.portfolio, "projects",
                      Append(Get(st.portfolio, "projects", <<>>),
                             [title |-> Strip(match.g1), description |-> Strip(match.g2),
                              image |-> DefaultImage])), TRUE)
        ELSE st

ApplyAddService(st, text) ==
    LET match == AddSearch(text, kService)
    IN  IF match.found
        THEN Step(Put(st.portfolio, "services",
                      Append(Get(st.portfolio, "services", <<>>),
                             [title |-> Strip(match.g1), description |-> Strip(match.g2)])),
                  TRUE)
        ELSE st

ApplyRemove(st, text, kind, key) ==
    LET match == TokenSearch(text, cREMOVE, kind)
    IN  IF match.found
        THEN LET name == Lower(Strip(match.val))
                 old  == Get(st.portfolio, key, <<>>)
                 kept == RemoveMatching(old, name)
             IN  Step(Put(st.portfolio, key, kept), st.changed \/ Len(kept) < Len(old))
        ELSE st

\* the removals tried before the additions
ApplyPattern_removeFirst(st, text, i) ==
    CASE i = 1 -> ApplyEdit(st, text, kBio)
      [] i = 2 -> ApplyEdit(st, text, kHeadline)
      [] i = 3 -> ApplyEdit(st, text, kTitle)
      [] i = 4 -> ApplyEmail(st, text)
      [] i = 5 -> ApplyRemove(st, text, kProject, "projects")
      [] i = 6 -> ApplyRemove(st, text, kService, "services")
      [] i = 7 -> ApplyAddProject(st, text)
      [] OTHER -> ApplyAddService(st, text)

\* the eight searches in the order of the function
ApplyPattern(st, text, i) ==
    CASE i = 1 -> ApplyEdit(st, text, kBio)
      [] i = 2 -> ApplyEdit(st, text, kHeadline)
      [] i = 3 -> ApplyEdit(st, text, kTitle)
      [] i = 4 -> ApplyEmail(st, text)
      [] i = 5 -> ApplyAddProject(st, text)
      [] i = 6 -> ApplyAddService(st, text)
      [] i = 7 -> ApplyRemove(st, text, kProject, "projects")
      [] OTHER -> ApplyRemove(st, text, kService, "services")

PatternCount == 8

RECURSIVE ApplyFrom(_, _, _)
ApplyFrom(st, text, i) ==
    IF i > PatternCount THEN st
    ELSE CHOOSE r \in {ApplyFrom(s, text, i + 1) : s \in {ApplyPattern(st, text, i)}} : TRUE

process_commands(text, portfolio) == ApplyFrom(Step(portfolio, FALSE), text, 1)

(***************************************************************************)
(* Exceptions of the mutation code.  json.load hands back None for a JSON  *)
(* null, in the place of a text or of an object.                           *)
(***************************************************************************)
NullText == <<"null">>

NullObject == [null |-> TRUE]

\* p.get('title', '').lower() on a title that is None: AttributeError
RemovalRaises(items) == \E i \in 1..Len(items) : Get(items[i], "title", <<>>) = NullText

\* content['contact']['email'] = new_email on a contact that is None: TypeError
EmailRaises(content) == Has(content, "contact") /\ content["contact"] = NullObject

\* show_portfolio_summary and show_portfolio: content.get('bio', 'N/A')[:100] on a
\* bio that is None, content.get('contact', {}).get('email', 'N/A') on a contact
\* that is None; a key that is absent takes the default
SummaryRaises(content) ==
    \/ Get(content, "bio", <<>>) = NullText
    \/ Get(content, "contact", EmptyMap) = NullObject

\* portfolio_manager.process_command leaves by an exception
MgrRaises(user_input, content, confirm) ==
    LET user_input_lower == Strip(Lower(user_input))
        intent == MgrIntent(user_input)
    IN  CASE intent = "ShowSummary" -> SummaryRaises(content)
          [] intent = "UpdateEmail" ->
               EmailSearch(user_input).found /\ Affirmed(confirm) /\ EmailRaises(content)
          [] intent = "RemoveProject" ->
               /\ RemoveHintSearch(user_input_lower, kProject).found
               /\ RemovalRaises(Get(content, "projects", <<>>))
          [] intent = "RemoveService" ->
               /\ RemoveHintSearch(user_input_lower, kService).found
               /\ RemovalRaises(Get(content, "services", <<>>))
          [] OTHER -> FALSE

\* PortfolioChat.process_llm_response leaves by an exception; show_portfolio is
\* tested in the handler
ChatRaises(user_input, portfolio) ==
    LET user_lower == Lower(user_input)
        intent == ChatIntent(user_input)
    IN  CASE intent = "UpdateEmail" -> EmailSearch(user_input).found /\ EmailRaises(portfolio)
          [] intent = "RemoveProject" ->
               /\ RemoveHintSearch(user_lower, kProject).found
               /\ RemovalRaises(Get(portfolio, "projects", <<>>))
          [] intent = "RemoveService" ->
               /\ RemoveHintSearch(user_lower, kService).found
               /\ RemovalRaises(Get(portfolio, "services", <<>>))
          [] OTHER -> FALSE

\* portfolio_watcher.process_commands leaves by an exception: the searches before
\* the failing one neither add nor take away a null
WatcherRaises(text, portfolio) ==
    \/ TokenSearch(text, cEDIT, kEmail).found /\ EmailRaises(portfolio)
    \/ /\ TokenSearch(text, cREMOVE, kProject).found
       /\ RemovalRaises(Get(portfolio, "projects", <<>>))
    \/ /\ TokenSearch(text, cREMOVE, kService).found
       /\ RemovalRaises(Get(portfolio, "services", <<>>))

(***************************************************************************)
(* Bounds of the model                                                     *)
(***************************************************************************)
\* no list of the document grows beyond this many items
MaxItems == 2
\* the count of process_commands calls on one clipboard content stops here
MaxRunCalls == 2
\* at most this many process_message threads are started and not yet finished
MaxThreads == 2

(***************************************************************************)
(* State                                                                   *)
(***************************************************************************)
VARIABLES
    programs,        \* the programs started in this run: a subset of manager, chat, watcher
    pool,            \* what the user may type, the backend may reply, the clipboard may
                     \* hold, whether storage, git and the clipboard may fail, and whether
                     \* the user sends while an utterance is being handled
    disk,            \* content.json: [st |-> "ok" | "missing" | "corrupt", doc |-> the tree]
    pending,         \* git status --porcelain prints something
    mgrPc,           \* portfolio_manager.main: "off", "loop", "exited", "crashed"
    mgrContent,      \* its local `content`
    chatPc,          \* PortfolioChat: "off", "open"
    chatPortfolio,   \* self.portfolio
    chatLoadFailed,  \* load_portfolio took its except branch
    chatThreads,     \* the utterances of the process_message threads started and not finished
    sendBtn,         \* send_btn is in state NORMAL
    faulted,         \* a save of this run failed
    wPc,             \* portfolio_watcher.main: "off", "running"
    last_clipboard,  \* its local last_clipboard
    clipboard,       \* the clipboard
    runCalls,        \* process_commands calls since the clipboard last changed
    last             \* what the last start, handled utterance, executed snapshot or
                     \* push command did

vars == <<programs, pool, disk, pending, mgrPc, mgrContent, chatPc, chatPortfolio,
          chatLoadFailed, chatThreads, sendBtn, faulted, wPc, last_clipboard, clipboard,
          runCalls, last>>

mgrVars == <<mgrPc, mgrContent>>

chatVars == <<chatPc, chatPortfolio, chatLoadFailed, chatThreads, sendBtn>>

watcherVars == <<wPc, last_clipboard, runCalls>>

OnDisk(doc) == [st |-> "ok", doc |-> doc]

Missing == [st |-> "missing", doc |-> EmptyMap]

Corrupt == [st |-> "corrupt", doc |-> EmptyMap]

\* the lists of a document stay within the bound
Fits(doc) ==
    /\ Len(Get(doc, "projects", <<>>)) <= MaxItems
    /\ Len(Get(doc, "services", <<>>)) <= MaxItems

NoStep ==
    [who |-> "none", op |-> "none", u |-> <<>>, intent |-> "none", asked |-> FALSE,
     confirm |-> NoAnswer, answer |-> NoAnswer, changed |-> FALSE, load |-> "none",
     save |-> "none",
     sync |-> "none", cmds |-> <<>>, pend |-> FALSE, before |-> EmptyMap, doc |-> EmptyMap,
     again |-> FALSE, prevChanged |-> FALSE, resp |-> FailedReply, raised |-> FALSE]

\* the input now handled is the one this program handled last, it takes the same
\* branch, and it starts from the document that handling left
Again(who, u, intent, before) ==
    /\ last.op = "handle"
    /\ last.who = who
    /\ last.u = u
    /\ last.intent = intent
    /\ last.doc = before

(***************************************************************************)
(* Storage and git                                                         *)
(***************************************************************************)
\* open(CONTENT_FILE, 'w') and json.dump: written, refused, or cut short
SaveOutcomes == IF pool.faults THEN {"ok", "fail", "partial"} ELSE {"ok"}

SaveChoices(changed) == IF changed THEN SaveOutcomes ELSE {"none"}

\* a save whose write is undone
Saved_reverted(doc, outcome) == IF outcome = "partial" THEN Corrupt ELSE disk

\* a save that keeps the stored fields the written document does not have
Saved_merged(doc, outcome) ==
    CASE outcome = "ok" -> OnDisk([k \in DOMAIN doc \cup DOMAIN disk.doc |->
                                     IF k \in DOMAIN doc THEN doc[k] ELSE disk.doc[k]])
      [] outcome = "partial" -> Corrupt
      [] OTHER -> disk

\* the file after a save with the given outcome
Saved(doc, outcome) ==
    CASE outcome = "ok" -> OnDisk(doc)
      [] outcome = "partial" -> Corrupt
      [] OTHER -> disk

\* git status after a save with the given outcome
PendingAfter(doc, outcome) ==
    CASE outcome = "ok" -> pending \/ disk # OnDisk(doc)
      [] outcome = "partial" -> TRUE
      [] OTHER -> pending

\* open(CONTENT_FILE, 'r') and json.load: the tree, or an exception
LoadOutcomes ==
    IF disk.st # "ok" THEN {disk.st} ELSE IF pool.faults THEN {"ok", "ioerror"} ELSE {"ok"}

\* the git run: every command succeeds, git is not installed, or one command fails
GitOutcomes == IF pool.faults THEN {"ok", "missing", "add", "commit", "push"} ELSE {"ok"}

GitChoices(runs) == IF runs THEN GitOutcomes ELSE {"none"}

\* a step without a saved change that stages, commits and pushes all the same
NoPublish_pushes(pend) ==
    [sync |-> "ok", cmds |-> <<"add", "commit", "push">>, pending |-> FALSE]

NoPublish(pend) == [sync |-> "none", cmds |-> <<>>, pending |-> pend]

\* git add ., git commit, git push with check=True: the commands run, the first
\* failure, and git status afterwards.  git commit exits 1 with nothing to commit.
AddCommitPush(pend, g, pre) ==
    IF g = "add" THEN [ok |-> FALSE, cmds |-> pre \o <<"add">>, pending |-> pend]
    ELSE IF g = "commit" \/ ~pend
    THEN [ok |-> FALSE, cmds |-> pre \o <<"add", "commit">>, pending |-> pend]
    ELSE [ok |-> g # "push", cmds |-> pre \o <<"add", "commit", "push">>, pending |-> FALSE]

\* portfolio_manager.push_to_github
MgrPublish(pend, g) ==
    IF g = "missing" THEN [sync |-> "fail", cmds |-> <<>>, pending |-> pend]
    ELSE IF ~pend THEN [sync |-> "ok", cmds |-> <<"status">>, pending |-> pend]
    ELSE LET r == AddCommitPush(pend, g, <<"status">>)
         IN  [sync |-> IF r.ok THEN "ok" ELSE "fail", cmds |-> r.cmds, pending |-> r.pending]

\* PortfolioChat.push_to_github
ChatPublish(pend, g) ==
    IF g = "missing" THEN [sync |-> "fail", cmds |-> <<>>, pending |-> pend]
    ELSE LET r == AddCommitPush(pend, g, <<>>)
         IN  [sync |-> IF r.ok THEN "ok" ELSE "fail", cmds |-> r.cmds, pending |-> r.pending]

\* portfolio_watcher.push_to_github: only CalledProcessError is caught
WatcherPublish(pend, g) ==
    IF g = "missing" THEN [sync |-> "raised", cmds |-> <<>>, pending |-> pend]
    ELSE LET r == AddCommitPush(pend, g, <<>>)
         IN  [sync |-> IF r.ok THEN "ok" ELSE "fail", cmds |-> r.cmds, pending |-> r.pending]

(***************************************************************************)
(* What the user types, what the backend replies, what the clipboard holds *)
(***************************************************************************)
uShow == <<"s","h","o","w">>
uBio == <<"u","p","d","a","t","e"," ","b","i","o">>
uAddProject == <<"a","d","d"," ","p","r","o","j","e","c","t">>
uRemoveService == <<"r","e","m","o","v","e"," ","s","e","r","v","i","c","e"," ","a","b">>
uHello == <<"h","e","l","l","o">>

rBio == TextReply(<<"B","u","i","l","d","s"," ","d","a","t","a"," ","t","o","o","l","s"," ","f","a","s","t">>)

rItem == JsonReply(<<"{","\"","t","i","t","l","e","\"",":"," ","\"","A","b","\"",","," ","\"","d","e","s","c","r","i","p","t","i","o","n","\"",":"," ","\"","d","\"","}">>, [title |-> <<"A","b">>, description |-> <<"d">>])

tHello == <<"h","e","l","l","o">>
tBio == <<"[","P","O","R","T","F","O","L","I","O","_","E","D","I","T",":"," ","b","i","o"," ","|"," ","B","b","]">>
tRemoveService == <<"[","P","O","R","T","F","O","L","I","O","_","R","E","M","O","V","E",":"," ","s","e","r","v","i","c","e"," ","|"," ","a","b","]">>

\* a session in which storage, git and the clipboard may fail
SessionPool ==
    [utter  |-> {uShow, uBio, uRemoveService, uHello},
     resp   |-> {FailedReply, rBio},
     clip   |-> {tHello, tBio, tRemoveService},
     faults |-> TRUE, overlap |-> TRUE]

Doc0 ==
    [name |-> <<"N">>, bio |-> <<"B","0">>, contact |-> [email |-> <<"x","@","y",".","z","z">>],
     projects |-> << [title |-> <<"A","b","c">>, description |-> <<"d">>,
                      image |-> DefaultImage] >>]

ProgramSets == {{"manager"}, {"chat"}, {"watcher"}}

Start ==
    /\ mgrPc = "off"
    /\ mgrContent = EmptyMap
    /\ chatPc = "off"
    /\ chatPortfolio = EmptyMap
    /\ chatLoadFailed = FALSE
    /\ chatThreads = <<>>
    /\ sendBtn = TRUE
    /\ faulted = FALSE
    /\ wPc = "off"
    /\ last_clipboard = <<>>
    /\ clipboard = <<>>
    /\ runCalls = 0
    /\ last = NoStep

Init ==
    /\ programs \in ProgramSets
    /\ pool = SessionPool
    /\ disk \in {OnDisk(Doc0), Missing, Corrupt}
    /\ pending = FALSE
    /\ Start

(***************************************************************************)
(* Inputs drawn one per run, with no fault of storage, git or clipboard    *)
(***************************************************************************)
Words2(a, b) == a \o <<" ">> \o b

Words3(a, b, c) == a \o <<" ">> \o b \o <<" ">> \o c

\* the titles of the items and the removal hints
TitlePool == {<<"a">>, <<"A","b">>, <<"b","A">>, <<"c">>}

HintPool == {<<"a">>, <<"A">>, <<"a","b">>, <<"A","B">>, <<"b">>, <<"d">>}

ItemKinds == {kProject, kService}

RECURSIVE ListsUpTo(_, _)
ListsUpTo(S, n) ==
    IF n = 0 THEN {<<>>}
    ELSE ListsUpTo(S, n - 1) \cup {Append(l, x) : l \in {m \in ListsUpTo(S, n - 1) : Len(m) = n - 1},
                                                  x \in S}

\* a document whose projects and services have the given titles
DocWith(titles) ==
    [name |-> <<"N">>,
     projects |-> [i \in 1..Len(titles) |->
                     [title |-> titles[i], description |-> <<"d">>, image |-> DefaultImage]],
     services |-> [i \in 1..Len(titles) |-> [title |-> titles[i], description |-> <<"d">>]]]

RemoveUtterance(kind, h) == Words3(kRemove, kind, h)

RemoveToken(kind, h) == cREMOVE \o <<" ">> \o kind \o <<" ","|"," ">> \o h \o <<"]">>

RemovalScenarios ==
    {[programs |-> ProgramSets,
      pool |-> [utter |-> {RemoveUtterance(kind, h)}, resp |-> {rBio},
                clip |-> {RemoveToken(kind, h), tHello}, faults |-> FALSE, overlap |-> FALSE],
      doc |-> DocWith(titles)] :
        kind \in ItemKinds, h \in HintPool, titles \in ListsUpTo(TitlePool, MaxItems)}

\* what follows the words of an email request
EmailTexts == {<<>>, <<"a","@","b">>, <<"a","@","b",".","c">>, <<"@","b",".","c">>, <<"a","@",".","c">>, <<"a",".","b","@","c","-","d",".","e","f">>, <<"a","@","b",".">>, <<"a"," ","@","b",".","c">>}

EmailScenarios ==
    {[programs |-> {{"manager"}, {"chat"}},
      pool |-> [utter |-> {Strip(Words3(verb, kEmail, x))}, resp |-> {rBio}, clip |-> {},
                faults |-> FALSE, overlap |-> FALSE],
      doc |-> Doc0] : verb \in {kSet, <<>>}, x \in EmailTexts}

\* the words the two classifiers look for
ClassifyWords ==
    {kShow, kDisplay, kCurrent, kList, kView, kBio, kHeadline, kTitle, kEmail, kProject,
     kService, kAdd, kRemove, kUpdate, kChange, kSet, kMake}

\* an utterance holds at most this many of the words, except the ones named below
MaxWords == 2

RECURSIVE Sentences(_)
Sentences(n) ==
    IF n = 0 THEN {<<>>}
    ELSE Sentences(n - 1) \cup {Strip(Words2(s, w)) : s \in Sentences(n - 1), w \in ClassifyWords}

\* utterances in which an email word meets the words of another request
LongSentences ==
    {Words3(verb, kind, kEmail) : verb \in {kAdd, kRemove}, kind \in ItemKinds}
        \cup {Words3(verb, kEmail, field) : verb \in {kSet, kMake}, field \in {kBio, kTitle}}
        \cup {Words2(Words2(kSet, kEmail), Words2(kAdd, kProject))}

ClassifyScenarios ==
    {[programs |-> {{"manager"}, {"chat"}},
      pool |-> [utter |-> {u}, resp |-> {rBio}, clip |-> {}, faults |-> FALSE,
                overlap |-> FALSE],
      doc |-> Doc0] : u \in (Sentences(MaxWords) \cup LongSentences) \ {<<>>}}

Xs(n) == [i \in 1..n |-> "x"]

\* the lengths of the generated texts: each threshold, and one more
PayloadLengths ==
    {TitleMinLen, TitleMinLen + 1, HeadlineMinLen, HeadlineMinLen + 1, BioMinLen, BioMinLen + 1}

ItemReplies ==
    {rItem,
     JsonReply(<<"{","\"","t","i","t","l","e","\"",":"," ","\"","\"",","," ","\"","d","e","s","c","r","i","p","t","i","o","n","\"",":"," ","\"","d","\"","}">>, [title |-> <<>>, description |-> <<"d">>]),
     JsonReply(<<"{","\"","d","e","s","c","r","i","p","t","i","o","n","\"",":"," ","\"","d","\"","}">>, [description |-> <<"d">>]),
     TextReply(<<"o","k">>)}

\* replies that carry nothing: the empty text, white space longer than every
\* threshold, a pair of quotes
BlankReplies ==
    {TextReply(<<>>), TextReply([i \in 1..(BioMinLen + 1) |-> " "]), TextReply(<<"\"", "\"">>)}

AcceptReplies ==
    {TextReply(Xs(n)) : n \in PayloadLengths} \cup ItemReplies \cup BlankReplies \cup {FailedReply}

uHeadline == <<"s","e","t"," ","h","e","a","d","l","i","n","e">>
uTitle == <<"c","h","a","n","g","e"," ","t","i","t","l","e">>
uAddService == <<"a","d","d"," ","s","e","r","v","i","c","e">>

AcceptScenarios ==
    {[programs |-> {{"manager"}, {"chat"}},
      pool |-> [utter |-> {u}, resp |-> {r}, clip |-> {}, faults |-> FALSE,
                overlap |-> FALSE],
      doc |-> Doc0] : u \in {uBio, uHeadline, uTitle, uAddProject, uAddService},
                      r \in AcceptReplies}

AddToken(kind, title, description) ==
    cADD \o <<" ">> \o kind \o <<" ","|"," ">> \o title \o <<" ","|"," ">> \o description \o <<"]">>

tOrbit == <<"[","P","O","R","T","F","O","L","I","O","_","A","D","D",":"," ","p","r","o","j","e","c","t"," ","|"," ","O","r","b","i","t"," ","|"," ","A"," ","t","r","a","c","k","i","n","g"," ","t","o","o","l","]">>

\* the titles and descriptions of the tokens
Orbit == <<"O","r","b","i","t">>

TrackingTool == <<"A"," ","t","r","a","c","k","i","n","g"," ","t","o","o","l">>

AddTokens ==
    {AddToken(kind, <<"A","b">>, <<"d">>) : kind \in ItemKinds}
        \cup {AddToken(kProject, Orbit, TrackingTool)}

\* an item is added to lists that have room for it, some holding its title already
AddScenarios ==
    {[programs |-> {{"manager"}, {"chat"}},
      pool |-> [utter |-> {u}, resp |-> {rItem}, clip |-> {}, faults |-> FALSE,
                overlap |-> FALSE],
      doc |-> DocWith(titles)] :
        u \in {uAddProject, uAddService}, titles \in ListsUpTo(TitlePool, MaxItems - 1)}
    \cup
    {[programs |-> {{"watcher"}},
      pool |-> [utter |-> {}, resp |-> {}, clip |-> {t, tHello}, faults |-> FALSE,
                overlap |-> FALSE],
      doc |-> DocWith(titles)] :
        t \in AddTokens, titles \in ListsUpTo(TitlePool, MaxItems - 1)}

\* two tokens of different kinds, and two tokens of one kind
tTwoKinds == tBio \o <<" ">> \o AddToken(kService, <<"A","b">>, <<"d">>)

tTwoAdds == AddToken(kProject, <<"A","b">>, <<"d">>) \o <<" ">> \o AddToken(kProject, <<"c">>, <<"d">>)

WatcherScenario(t, doc) ==
    [programs |-> {{"watcher"}},
     pool |-> [utter |-> {}, resp |-> {}, clip |-> {t, tHello}, faults |-> FALSE,
               overlap |-> FALSE],
     doc |-> doc]

\* texts with more than one token, on a document with empty lists
TokenScenarios == {WatcherScenario(t, DocWith(<<>>)) : t \in {tTwoKinds, tTwoAdds}}

\* tokens with an unknown field or kind, without a '|', without a closing bracket,
\* without a description
tUnknownField == <<"[","P","O","R","T","F","O","L","I","O","_","E","D","I","T",":"," ","p","h","o","n","e"," ","|"," ","1","2","]">>
tUnknownKind == <<"[","P","O","R","T","F","O","L","I","O","_","A","D","D",":"," ","p","a","g","e"," ","|"," ","A","b"," ","|"," ","d","]">>
tNoBar == <<"[","P","O","R","T","F","O","L","I","O","_","E","D","I","T",":"," ","b","i","o"," ","B","b","]">>
tNoClose == <<"[","P","O","R","T","F","O","L","I","O","_","E","D","I","T",":"," ","b","i","o"," ","|"," ","B","b">>
tShortAdd == <<"[","P","O","R","T","F","O","L","I","O","_","A","D","D",":"," ","p","r","o","j","e","c","t"," ","|"," ","O","r","b","i","t","]">>

MalformedTexts ==
    {tUnknownField, tUnknownKind, tNoBar, tNoClose, tShortAdd,
     tShortAdd \o <<" ">> \o tUnknownField, tNoClose \o <<" ">> \o tUnknownField}

MalformedScenarios == {WatcherScenario(t, DocWith(<<>>)) : t \in MalformedTexts}

\* requests that need no generated text, met by a backend that does not answer
uRemoveProject == RemoveUtterance(kProject, <<"a","b">>)

uEmail == Words3(kSet, kEmail, <<"a","@","b",".","c">>)

BackendDownScenarios ==
    {[programs |-> {{"manager"}, {"chat"}},
      pool |-> [utter |-> {u}, resp |-> {r}, clip |-> {}, faults |-> FALSE,
                overlap |-> FALSE],
      doc |-> Doc0] : u \in {uRemoveProject, uEmail}, r \in {FailedReply, TextReply(<<>>)}}

\* documents json.load accepts: a project and a service whose title is null, a
\* contact that is null, a project without a title
DocNullTitle ==
    [name |-> <<"N">>,
     projects |-> << [title |-> NullText, description |-> <<"d">>, image |-> DefaultImage],
                     [title |-> <<"A","b">>, description |-> <<"d">>, image |-> DefaultImage] >>,
     services |-> << [title |-> NullText, description |-> <<"d">>] >>]

DocNullContact == [name |-> <<"N">>, contact |-> NullObject]

DocNoTitle ==
    [name |-> <<"N">>,
     projects |-> << [description |-> <<"d">>, image |-> DefaultImage],
                     [title |-> <<"A","b">>, description |-> <<"d">>, image |-> DefaultImage] >>]

NullDocs == {DocNullTitle, DocNullContact, DocNoTitle}

tEmail == cEDIT \o <<" ">> \o kEmail \o <<" ","|"," ">> \o <<"a","@","b",".","c">> \o <<"]">>

NullScenarios ==
    {[programs |-> {{"manager"}, {"chat"}},
      pool |-> [utter |-> {u}, resp |-> {rBio}, clip |-> {}, faults |-> FALSE,
                overlap |-> FALSE],
      doc |-> doc] :
        u \in {uRemoveProject, RemoveUtterance(kService, <<"a","b">>), uEmail},
        doc \in NullDocs}
    \cup
    {WatcherScenario(t, doc) :
        t \in {RemoveToken(kProject, <<"a","b">>), RemoveToken(kService, <<"a","b">>), tEmail},
        doc \in NullDocs}

\* a document that holds every key, and the documents that hold some of them
DocKeys == {"name", "title", "headline", "bio", "contact", "services", "projects"}

FullDoc ==
    [name |-> <<"N">>, title |-> <<"T">>, headline |-> <<"H">>, bio |-> <<"B","0">>,
     contact |-> [email |-> <<"x","@","y",".","z","z">>],
     services |-> << [title |-> <<"A","b">>, description |-> <<"d">>] >>,
     projects |-> << [title |-> <<"A","b","c">>, description |-> <<"d">>,
                      image |-> DefaultImage] >>]

Restrict(d, K) == [k \in K \cap DOMAIN d |-> d[k]]

PartialDocs == {Restrict(FullDoc, K) : K \in SUBSET DocKeys}

PartialScenarios ==
    {[programs |-> {{"manager"}, {"chat"}},
      pool |-> [utter |-> {u}, resp |-> {rItem}, clip |-> {}, faults |-> FALSE,
                overlap |-> FALSE],
      doc |-> doc] : u \in {uShow, uEmail, uAddProject, uRemoveProject}, doc \in PartialDocs}
    \cup
    {WatcherScenario(t, doc) :
        t \in {tBio, tEmail, AddToken(kProject, <<"A","b">>, <<"d">>),
               RemoveToken(kProject, <<"a","b">>)},
        doc \in PartialDocs}

\* generated texts as long as a cap, and one character longer than each cap
CapLengths == {HeadlineCap, HeadlineCap + 1, TitleCap + 1, BioCap + 1}

CapScenarios ==
    {[programs |-> {{"manager"}, {"chat"}},
      pool |-> [utter |-> {u}, resp |-> {TextReply(Xs(n))}, clip |-> {}, faults |-> FALSE,
                overlap |-> FALSE],
      doc |-> Doc0] : u \in {uBio, uHeadline, uTitle}, n \in CapLengths}

\* generated texts of one line and of several lines
LineTexts ==
    {<<"A","l","p","h","a"," ","b","e","t","a","\n","G","a","m","m","a">>,
     <<"A","l","p","h","a"," ","b","e","t","a","\n","\n","G","a","m","m","a"," ","d","e","l","t","a">>,
     <<"\n","A","l","p","h","a"," ","b","e","t","a">>,
     <<"H","e","r","e"," ","i","s"," ","t","h","e"," ","t","i","t","l","e",":","\n","A","l","p","h","a"," ","b","e","t","a","\n","G","a","m","m","a">>,
     <<"A","l","p","h","a"," ","b","e","t","a">>}

LineScenarios ==
    {[programs |-> {{"manager"}, {"chat"}},
      pool |-> [utter |-> {u}, resp |-> {TextReply(t)}, clip |-> {}, faults |-> FALSE,
                overlap |-> FALSE],
      doc |-> Doc0] : u \in {uHeadline, uTitle}, t \in LineTexts}

\* a bio token in lower case, one whose letters after the marker are in the other
\* case, and one whose payload holds a line break
tLowerCase == <<"[","p","o","r","t","f","o","l","i","o","_","e","d","i","t",":"," ","b","i","o"," ","|"," ","B","b","]">>

tMixedCase == <<"[","P","O","R","T","F","O","L","I","O","_","e","d","i","t",":"," ","B","I","O"," ","|"," ","B","b","]">>

tTwoLines == <<"[","P","O","R","T","F","O","L","I","O","_","E","D","I","T",":"," ","b","i","o"," ","|"," ","B","\n","b","]">>

CaseScenarios ==
    {WatcherScenario(t, DocWith(<<>>)) : t \in {tLowerCase, tMixedCase, tTwoLines}}

\* a document whose contact holds more than the address, and the same document
\* without a contact
DocSocial ==
    [name |-> <<"N">>, title |-> <<"T">>, headline |-> <<"H">>, bio |-> <<"B","0">>,
     contact |-> [email |-> <<"x","@","y",".","z","z">>, phone |-> <<"1","2">>,
                  social |-> [github |-> <<"g">>, linkedin |-> <<"l">>]],
     services |-> << [title |-> <<"A","b">>, description |-> <<"d">>] >>,
     projects |-> << [title |-> <<"A","b","c">>, description |-> <<"d">>,
                      image |-> DefaultImage] >>]

EditToken(field, value) == cEDIT \o <<" ">> \o field \o <<" ","|"," ">> \o value \o <<"]">>

FrameScenarios ==
    {[programs |-> {{"manager"}, {"chat"}},
      pool |-> [utter |-> {u}, resp |-> {TextReply(Xs(BioMinLen + 1))}, clip |-> {},
                faults |-> FALSE, overlap |-> FALSE],
      doc |-> doc] : u \in {uBio, uHeadline, uTitle, uEmail},
                     doc \in {DocSocial, Restrict(DocSocial, DocKeys \ {"contact"})}}
    \cup
    {WatcherScenario(t, doc) :
        t \in {EditToken(f, <<"B","b">>) : f \in {kBio, kHeadline, kTitle}}
               \cup {tEmail, tBio \o <<" ">> \o tEmail},
        doc \in {DocSocial, Restrict(DocSocial, DocKeys \ {"contact"})}}

\* an ADD and a REMOVE token of one kind in one text, in both orders, the hint
\* within the added title or not
OrderTexts ==
    {RemoveToken(kind, h) \o <<" ">> \o AddToken(kind, <<"A","b">>, <<"d">>) :
        kind \in ItemKinds, h \in {<<"a","b">>, <<"c">>}}
    \cup
    {AddToken(kind, <<"A","b">>, <<"d">>) \o <<" ">> \o RemoveToken(kind, h) :
        kind \in ItemKinds, h \in {<<"a","b">>, <<"c">>}}

OrderScenarios ==
    {WatcherScenario(t, DocWith(titles)) : t \in OrderTexts, titles \in {<<>>, <<<<"c">>>>}}

\* the chat window and the watcher run side by side on one portfolio.json
tHeadline == EditToken(kHeadline, <<"H","h">>)

SharedFileScenarios ==
    {[programs |-> {{"chat", "watcher"}},
      pool |-> [utter |-> {uBio}, resp |-> {rBio}, clip |-> {tHeadline, tHello},
                faults |-> FALSE, overlap |-> FALSE],
      doc |-> Doc0]}

Scenarios ==
    OrderScenarios \cup SharedFileScenarios \cup CapScenarios \cup FrameScenarios \cup CaseScenarios \cup LineScenarios \cup RemovalScenarios \cup EmailScenarios \cup ClassifyScenarios \cup AcceptScenarios
        \cup AddScenarios \cup TokenScenarios \cup MalformedScenarios
        \cup BackendDownScenarios \cup NullScenarios \cup PartialScenarios

InitInputs ==
    /\ \E sc \in Scenarios :
         /\ programs \in sc.programs
         /\ pool = sc.pool
         /\ disk = OnDisk(sc.doc)
    /\ pending = FALSE
    /\ Start

(***************************************************************************)
(* portfolio_manager.main                                                  *)
(***************************************************************************)
\* load_portfolio under the try of main: FileNotFoundError and JSONDecodeError
\* end the program, any other exception is not caught
MgrStart ==
    /\ "manager" \in programs
    /\ mgrPc = "off"
    /\ \E lo \in LoadOutcomes :
         /\ mgrPc' = CASE lo = "ok" -> "loop"
                       [] lo = "ioerror" -> "crashed"
                       [] OTHER -> "exited"
         /\ mgrContent' = IF lo = "ok" THEN disk.doc ELSE EmptyMap
         /\ last' = [NoStep EXCEPT !.who = "manager", !.op = "start", !.load = lo,
                                   !.doc = IF lo = "ok" THEN disk.doc ELSE EmptyMap]
    /\ UNCHANGED <<programs, pool, disk, pending, chatVars, watcherVars, clipboard, faulted>>

\* the replies and answers one utterance can meet
MgrReplies(intent) == IF MgrAsks(intent) THEN pool.resp ELSE {FailedReply}

\* what the user types at a prompt
Answers == {<<"y">>, <<"Y"," ">>, <<"y","e","s">>, <<"n">>}

MgrAnswers(u, resp) == IF MgrPrompts(u, resp) THEN Answers ELSE {NoAnswer}

\* one turn of the loop with an utterance that is no quit and no push word
MgrHandle ==
    /\ mgrPc = "loop"
    /\ \E u \in pool.utter : \E intent \in {MgrIntent(Strip(u))} :
       \E resp \in MgrReplies(intent) : \E answer \in MgrAnswers(Strip(u), resp) :
       \E confirm \in {Lower(Strip(answer))} :
       \E raised \in {MgrRaises(Strip(u), mgrContent, confirm)} :
         \E r \in {IF raised THEN Unchanged(mgrContent)
                    ELSE process_command(Strip(u), mgrContent, resp, confirm)} :
             /\ Strip(u) # <<>>
             /\ Fits(r.content)
             /\ \E so \in SaveChoices(r.changed) : \E g \in GitChoices(so = "ok") :
                  LET pend == PendingAfter(r.content, so)
                  IN  \E pb \in {IF so = "ok" THEN MgrPublish(pend, g) ELSE NoPublish(pend)} :
                      /\ mgrContent' = r.content
                      /\ faulted' = (faulted \/ so \in {"fail", "partial"})
                      /\ mgrPc' = IF raised \/ so \in {"fail", "partial"} THEN "crashed"
                                  ELSE "loop"
                      /\ disk' = Saved(r.content, so)
                      /\ pending' = pb.pending
                      /\ last' = [who |-> "manager", op |-> "handle", u |-> u,
                                  intent |-> intent, asked |-> MgrAsks(intent),
                                  confirm |-> confirm, answer |-> answer,
                                  changed |-> r.changed, load |-> "none",
                                  save |-> so, sync |-> pb.sync, cmds |-> pb.cmds,
                                  pend |-> pend, before |-> mgrContent, doc |-> r.content,
                                  again |-> Again("manager", u, intent, mgrContent),
                                  prevChanged |-> Again("manager", u, intent, mgrContent)
                                                    /\ last.changed,
                                  resp |-> resp, raised |-> raised]
    /\ UNCHANGED <<programs, pool, chatVars, watcherVars, clipboard>>

\* 'push', 'deploy', 'publish'
MgrPush ==
    /\ mgrPc = "loop"
    /\ \E g \in GitOutcomes :
         LET pb == MgrPublish(pending, g)
         IN  /\ pending' = pb.pending
             /\ last' = [NoStep EXCEPT !.who = "manager", !.op = "push", !.sync = pb.sync,
                                       !.cmds = pb.cmds, !.pend = pending,
                                       !.before = mgrContent, !.doc = mgrContent]
    /\ UNCHANGED <<programs, pool, disk, mgrVars, chatVars, watcherVars, clipboard, faulted>>

\* 'quit', 'exit', 'q', Ctrl-C, end of input
MgrQuit ==
    /\ mgrPc = "loop"
    /\ mgrPc' = "exited"
    /\ last' = [NoStep EXCEPT !.who = "manager", !.op = "quit", !.before = mgrContent,
                              !.doc = mgrContent]
    /\ UNCHANGED <<programs, pool, disk, pending, mgrContent, chatVars, watcherVars, clipboard,
                   faulted>>

(***************************************************************************)
(* PortfolioChat                                                           *)
(***************************************************************************)
\* __init__: load_portfolio returns {} on any exception
ChatStart ==
    /\ "chat" \in programs
    /\ chatPc = "off"
    /\ \E lo \in LoadOutcomes :
         /\ chatPc' = "open"
         /\ chatPortfolio' = IF lo = "ok" THEN disk.doc ELSE EmptyMap
         /\ chatLoadFailed' = (lo # "ok")
         /\ last' = [NoStep EXCEPT !.who = "chat", !.op = "start", !.load = lo,
                                   !.doc = IF lo = "ok" THEN disk.doc ELSE EmptyMap]
    /\ UNCHANGED <<programs, pool, disk, pending, mgrVars, watcherVars, clipboard, chatThreads,
                   sendBtn, faulted>>

\* the branch process_message and process_llm_response reach: none without a reply
ChatReached(intent, response) ==
    IF Truthy(response) \/ intent = "ShowSummary" THEN intent ELSE "none"

ChatReplies(intent) == IF intent = "ShowSummary" THEN {FailedReply} ELSE pool.resp

\* the list without its i-th element
RemoveAt(s, i) == SubSeq(s, 1, i - 1) \o SubSeq(s, i + 1, Len(s))

\* send_message, from the Send button or from <Return> in the input field: the
\* button is disabled, the input field and its binding are not
ChatSend ==
    /\ chatPc = "open"
    /\ Len(chatThreads) < MaxThreads
    /\ chatThreads # <<>> => pool.overlap
    /\ \E u \in pool.utter :
         /\ Strip(u) # <<>>
         /\ chatThreads' = Append(chatThreads, Strip(u))
    /\ sendBtn' = FALSE
    /\ UNCHANGED <<programs, pool, disk, pending, mgrVars, chatPc, chatPortfolio, chatLoadFailed,
                   watcherVars, clipboard, faulted, last>>

\* one process_message thread, from its start to reset_ui or to the exception
\* that ends it
ChatHandle ==
    /\ chatPc = "open"
    /\ \E i \in DOMAIN chatThreads : \E u \in {chatThreads[i]} :
       \E intent \in {ChatIntent(Strip(u))} :
       \E response \in ChatReplies(intent) :
       \E raised \in {IF intent = "ShowSummary" THEN SummaryRaises(chatPortfolio)
                      ELSE Truthy(response) /\ ChatRaises(Strip(u), chatPortfolio)} :
         \E r \in {IF intent # "ShowSummary" /\ Truthy(response) /\ ~raised
                    THEN process_llm_response(Strip(u), response, chatPortfolio)
                    ELSE Edited(chatPortfolio, FALSE)} :
             /\ Strip(u) # <<>>
             /\ Fits(r.portfolio)
             /\ \E so \in SaveChoices(r.edited) : \E g \in GitChoices(so = "ok") :
                  LET pend == PendingAfter(r.portfolio, so)
                  IN  \E pb \in {IF so = "ok" THEN ChatPublish(pend, g) ELSE NoPublish(pend)} :
                      /\ chatPortfolio' = r.portfolio
                      /\ chatThreads' = RemoveAt(chatThreads, i)
                      /\ sendBtn' = IF raised \/ so \in {"fail", "partial"} THEN sendBtn
                                    ELSE TRUE
                      /\ faulted' = (faulted \/ so \in {"fail", "partial"})
                      /\ disk' = Saved(r.portfolio, so)
                      /\ pending' = pb.pending
                      /\ last' = [who |-> "chat", op |-> "handle", u |-> u,
                                  intent |-> ChatReached(intent, response),
                                  asked |-> intent # "ShowSummary",
                                  confirm |-> NoAnswer, answer |-> NoAnswer,
                                  changed |-> r.edited, load |-> "none",
                                  save |-> so, sync |-> pb.sync, cmds |-> pb.cmds,
                                  pend |-> pend, before |-> chatPortfolio,
                                  doc |-> r.portfolio,
                                  again |-> Again("chat", u, ChatReached(intent, response),
                                                  chatPortfolio),
                                  prevChanged |-> Again("chat", u,
                                                        ChatReached(intent, response),
                                                        chatPortfolio) /\ last.changed,
                                  resp |-> response, raised |-> raised]
    /\ UNCHANGED <<programs, pool, mgrVars, chatPc, chatLoadFailed, watcherVars, clipboard>>

(***************************************************************************)
(* portfolio_watcher.main                                                  *)
(***************************************************************************)
WatcherStart ==
    /\ "watcher" \in programs
    /\ wPc = "off"
    /\ wPc' = "running"
    /\ last_clipboard' = <<>>
    /\ last' = [NoStep EXCEPT !.who = "watcher", !.op = "start"]
    /\ UNCHANGED <<programs, pool, disk, pending, mgrVars, chatVars, clipboard, runCalls,
                   faulted>>

\* the user copies a text that differs from what the clipboard holds
ClipboardCopy ==
    /\ "watcher" \in programs
    /\ \E t \in pool.clip :
         /\ t # clipboard
         /\ clipboard' = t
    /\ runCalls' = 0
    /\ UNCHANGED <<programs, pool, disk, pending, mgrVars, chatVars, wPc, last_clipboard, last,
                   faulted>>

\* get_clipboard: the text, or '' when the clipboard cannot be read
ClipboardReads == IF pool.faults THEN {"ok", "fail"} ELSE {"ok"}

\* one turn of the loop: get_clipboard, the test of the text, process_commands
\* with its save and push, the assignment to last_clipboard, the except clause
WatcherPoll ==
    /\ wPc = "running"
    /\ \E rd \in ClipboardReads :
         LET current == IF rd = "ok" THEN clipboard ELSE <<>>
             fresh   == current # <<>> /\ current # last_clipboard
             calls   == fresh /\ Contains(cMARK, current)
         IN  /\ calls => runCalls < MaxRunCalls
             /\ \E lo \in IF calls THEN LoadOutcomes ELSE {"none"} :
                  \E raised \in {lo = "ok" /\ disk.doc # EmptyMap
                                   /\ WatcherRaises(current, disk.doc)} :
                  \E r \in {IF lo = "ok" /\ disk.doc # EmptyMap
                             THEN IF raised THEN Step(disk.doc, FALSE)
                                  ELSE process_commands(current, disk.doc)
                             ELSE Step(EmptyMap, FALSE)} :
                      /\ Fits(r.portfolio)
                      /\ \E so \in SaveChoices(r.changed) : \E g \in GitChoices(so = "ok") :
                           LET pend == PendingAfter(r.portfolio, so)
                           IN  \E pb \in {IF so = "ok" THEN WatcherPublish(pend, g)
                                          ELSE NoPublish(pend)} :
                               /\ disk' = Saved(r.portfolio, so)
                               /\ pending' = pb.pending
                               /\ faulted' = (faulted \/ so \in {"fail", "partial"})
                               /\ last_clipboard' = IF fresh /\ pb.sync # "raised" /\ ~raised
                                                    THEN current ELSE last_clipboard
                               /\ runCalls' = IF calls THEN runCalls + 1 ELSE runCalls
                               /\ last' = IF ~calls THEN last
                                           ELSE [who |-> "watcher", op |-> "handle",
                                                 u |-> current, intent |-> "commands",
                                                 asked |-> FALSE, confirm |-> NoAnswer,
                                                 answer |-> NoAnswer,
                                                 changed |-> r.changed, load |-> lo,
                                                 save |-> so, sync |-> pb.sync,
                                                 cmds |-> pb.cmds, pend |-> pend,
                                                 before |-> IF lo = "ok" THEN disk.doc
                                                            ELSE EmptyMap,
                                                 doc |-> r.portfolio,
                                                 again |-> lo = "ok"
                                                     /\ Again("watcher", current, "commands",
                                                              disk.doc),
                                                 prevChanged |-> lo = "ok" /\ last.changed
                                                     /\ Again("watcher", current, "commands",
                                                              disk.doc),
                                                 resp |-> FailedReply, raised |-> raised]
    /\ UNCHANGED <<programs, pool, mgrVars, chatVars, wPc, clipboard>>

Next ==
    \/ MgrStart
    \/ MgrHandle
    \/ MgrPush
    \/ MgrQuit
    \/ ChatStart
    \/ ChatSend
    \/ ChatHandle
    \/ WatcherStart
    \/ ClipboardCopy
    \/ WatcherPoll

Spec == Init /\ [][Next]_vars

SpecInputs == InitInputs /\ [][Next]_vars

\* a session of one request and one token, in which the backend, storage and git
\* may fail
rOk == TextReply(<<"o","k">>)

LivePool ==
    [utter  |-> {uEmail},
     resp   |-> {FailedReply, rOk},
     clip   |-> {tBio},
     faults |-> TRUE, overlap |-> FALSE]

InitLive ==
    /\ programs \in ProgramSets
    /\ pool = LivePool
    /\ disk = OnDisk(Doc0)
    /\ pending = FALSE
    /\ Start

\* a started process_message thread runs: threading.Thread(...).start() in
\* send_message hands it to the scheduler, and every call it makes returns or
\* raises (requests.post has timeout=120)
SpecLive == InitLive /\ [][Next]_vars /\ WF_vars(ChatHandle)

(***************************************************************************)
(* Properties                                                              *)
(***************************************************************************)
\* the last step handled an utterance or executed a clipboard snapshot
Handled == last.op = "handle"

\* the git commands that stage, commit and push
SyncCommands == {"add", "commit", "push"}

\* C1: while the clipboard keeps one text, the watcher calls process_commands for
\* it at most once, whatever load, save and push do.
C1_AtMostOncePerSnapshot == runCalls <= 1

\* C1: the run that breaks it: push_to_github raised, last_clipboard was not
\* assigned, and the next poll executed the same text again.
C1_ExecutedAgain ==
    /\ runCalls = 2
    /\ last.who = "watcher"
    /\ last.u = clipboard
    /\ last.sync = "raised"
    /\ last_clipboard # clipboard

\* the items of a sequence whose title does not contain the hint, whatever the case
KeepOthers(items, h) ==
    FilterSeq(items, {i \in 1..Len(items) :
                        ~Contains(Lower(h), Lower(Get(items[i], "title", <<>>)))})

\* the hint and the list of the removal the last step applied, if it applied one
\* and added nothing in the same step
LastRemoval ==
    LET none == [found |-> FALSE, h |-> <<>>, key |-> "projects"]
    IN  IF ~Handled \/ last.raised THEN none
        ELSE IF last.who = "watcher"
        THEN IF last.load # "ok" \/ last.before = EmptyMap THEN none
             ELSE IF \E kind \in ItemKinds : AddSearch(last.u, kind).found THEN none
             ELSE LET p == TokenSearch(last.u, cREMOVE, kProject)
                      s == TokenSearch(last.u, cREMOVE, kService)
                  IN  IF p.found THEN [found |-> TRUE, h |-> Strip(p.val), key |-> "projects"]
                      ELSE [found |-> s.found, h |-> Strip(s.val), key |-> "services"]
        ELSE IF last.intent = "RemoveProject"
        THEN LET m == RemoveHintSearch(Lower(last.u), kProject)
             IN  [found |-> m.found, h |-> Strip(m.val), key |-> "projects"]
        ELSE IF last.intent = "RemoveService"
        THEN LET m == RemoveHintSearch(Lower(last.u), kService)
             IN  [found |-> m.found, h |-> Strip(m.val), key |-> "services"]
        ELSE none

\* C2: a removal of projects or services, in the manager, the chat window and the
\* watcher, leaves in the list exactly the items whose title does not contain the
\* hint case-insensitively, in their order.
C2_RemovalExact ==
    LET r == LastRemoval
    IN  r.found => Get(last.doc, r.key, <<>>) = KeepOthers(Get(last.before, r.key, <<>>), r.h)

\* C2: a removal took two matching items out of a list and left the list, or took
\* one out and left another in.
C2_RemovedSome ==
    /\ last.changed
    /\ LET r == LastRemoval
       IN  /\ r.found
           /\ Len(Get(last.before, r.key, <<>>)) = 2
           /\ Len(Get(last.doc, r.key, <<>>)) \in {0, 1}

\* C3: the same removal applied a second time in a row, to the document the first
\* application left, removes nothing: the document stays as it was, changed is
\* false, and nothing is saved or published.
C3_SecondRemovalNoOp ==
    (last.again /\ LastRemoval.found) =>
        /\ ~last.changed
        /\ last.doc = last.before
        /\ last.save = "none"
        /\ last.sync = "none"
        /\ last.cmds = <<>>

\* C3: a removal that took items out was applied again and took out nothing.
C3_AppliedTwice ==
    /\ last.again
    /\ LastRemoval.found
    /\ last.prevChanged
    /\ ~last.changed

\* C4: after an accepted mutation whose save succeeded, a failed stage, commit or
\* push leaves the file equal to the mutated in-memory document, at every
\* entry point.
C4_SaveSurvivesSyncFailure ==
    (Handled /\ last.changed /\ last.save = "ok" /\ last.sync \in {"fail", "raised"}) =>
        disk = OnDisk(last.doc)

\* C4: a mutation was saved, git staged and committed, the push failed, and the
\* file holds the mutated document.
C4_PushFailedAfterSave ==
    /\ Handled
    /\ last.changed
    /\ last.save = "ok"
    /\ last.sync = "fail"
    /\ last.cmds # <<>>
    /\ last.cmds[Len(last.cmds)] = "push"
    /\ last.doc # last.before
    /\ disk = OnDisk(last.doc)

\* C5: a publish step that runs git with nothing pending reports success and runs
\* no stage, commit or push command, in the manager, the chat window and the
\* watcher.
C5_NothingPendingNoCommands ==
    (last.sync # "none" /\ ~last.pend /\ last.cmds # <<>>) =>
        /\ last.sync = "ok"
        /\ \A i \in 1..Len(last.cmds) : last.cmds[i] \notin SyncCommands

\* C5: the chat window or the watcher published with nothing pending: git add and
\* git commit ran and the step reported a failure.
C5_CommittedNothing ==
    /\ last.who \in {"chat", "watcher"}
    /\ ~last.pend
    /\ last.sync = "fail"
    /\ last.cmds = <<"add", "commit">>

\* C6: once an entry point has handled an input with no storage error, the file
\* equals the in-memory document.
C6_WriteThrough ==
    (Handled /\ last.load \in {"none", "ok"} /\ last.save \in {"none", "ok"}) =>
        disk = OnDisk(last.doc)

\* C6: the manager handled a removal that matched nothing: its document gained an
\* empty list, nothing was saved, and the file lacks the key.
C6_UnsavedKey ==
    /\ Handled
    /\ last.who = "manager"
    /\ ~last.changed
    /\ last.save = "none"
    /\ Has(last.doc, "services")
    /\ disk.st = "ok"
    /\ ~Has(disk.doc, "services")

\* C7: no session goes on after a load that failed: a missing or unparsable file
\* stops the program at every load site.
C7_LoadFailureStops ==
    /\ mgrPc = "loop" => (last.who = "manager" /\ last.op = "start" => last.load = "ok")
    /\ chatPc = "open" => ~chatLoadFailed

\* C7: the chat window took {} for a file it could not read, and an edit saved a
\* document built from {} over the file.
C7_SavedOverSource ==
    /\ chatLoadFailed
    /\ last.who = "chat"
    /\ last.save = "ok"
    /\ disk = OnDisk(last.doc)
    /\ ~Has(last.doc, "name")

\* some substring has the shape of an address: a character of [\w.-], an @, one or
\* more characters of [\w.-], a dot, a word character
HasEmailShape(u) ==
    \E j \in 2..Len(u) : \E k \in (j + 2)..(Len(u) - 1) :
        /\ u[j] = "@"
        /\ u[j - 1] \in EmailChars
        /\ \A i \in (j + 1)..(k - 1) : u[i] \in EmailChars
        /\ u[k] = "."
        /\ u[k + 1] \in WordChars

\* C8: an utterance taken as an email request that holds no email-shaped substring
\* leaves the whole document as it was, reports changed = false, and nothing is
\* saved or published for it.
C8_NoEmailNoChange ==
    (Handled /\ last.intent = "UpdateEmail" /\ ~HasEmailShape(last.u)) =>
        /\ ~last.changed
        /\ last.doc = last.before
        /\ last.save = "none"
        /\ last.sync = "none"
        /\ last.cmds = <<>>

\* C8: an email request whose text holds an @ and no address was handled.
C8_AtSignNoAddress ==
    /\ Handled
    /\ last.intent = "UpdateEmail"
    /\ ~HasEmailShape(last.u)
    /\ Contains(<<"@">>, last.u)
    /\ last.doc = last.before

\* a rule of a decision list holds when the utterance has a word of each group
RuleHolds(rule, low) == \A group \in rule.groups : \E w \in group : Contains(w, low)

\* first match wins; no match is a general query
FirstMatch(rules, u) ==
    LET low  == Lower(u)
        hits == {i \in 1..Len(rules) : RuleHolds(rules[i], low)}
    IN  IF hits = {} THEN "General" ELSE rules[Min(hits)].intent

Rule(intent, groups) == [intent |-> intent, groups |-> groups]

\* the tests of portfolio_manager.process_command, in the order of the function
ManagerRules ==
    << Rule("ShowSummary", {{kShow, kDisplay, kCurrent, kList}}),
       Rule("UpdateBio", {{kBio}, Verbs4}),
       Rule("UpdateHeadline", {{kHeadline}, Verbs4}),
       Rule("UpdateTitle", {{kTitle}, Verbs4}),
       Rule("UpdateEmail", {{kEmail}, Verbs3}),
       Rule("AddProject", {{kProject}, {kAdd}}),
       Rule("RemoveProject", {{kProject}, {kRemove}}),
       Rule("AddService", {{kService}, {kAdd}}),
       Rule("RemoveService", {{kService}, {kRemove}}) >>

\* the test of process_message and those of process_llm_response, in their order
ChatRules ==
    << Rule("ShowSummary", {{kShow, kDisplay, kCurrent, kView}}),
       Rule("UpdateBio", {{kBio}, Verbs4}),
       Rule("UpdateHeadline", {{kHeadline}, Verbs3}),
       Rule("UpdateTitle", {{kTitle}, Verbs3}),
       Rule("AddProject", {{kProject}, {kAdd}}),
       Rule("AddService", {{kService}, {kAdd}}),
       Rule("RemoveProject", {{kProject}, {kRemove}}),
       Rule("RemoveService", {{kService}, {kRemove}}),
       Rule("UpdateEmail", {{kEmail}}) >>

\* the one list both programs are said to follow
StatedRules ==
    << Rule("ShowSummary", {{kShow, kDisplay, kCurrent, kView}}),
       Rule("UpdateBio", {{kBio}, Verbs4}),
       Rule("UpdateHeadline", {{kHeadline}, Verbs4}),
       Rule("UpdateTitle", {{kTitle}, Verbs4}),
       Rule("UpdateEmail", {{kEmail}}),
       Rule("AddProject", {{kProject}, {kAdd}}),
       Rule("AddService", {{kService}, {kAdd}}),
       Rule("RemoveProject", {{kProject}, {kRemove}}),
       Rule("RemoveService", {{kService}, {kRemove}}) >>

\* the last step classified an utterance: a manager turn, or a chat turn that is a
\* show request or got a reply
Classified == Handled /\ last.who \in {"manager", "chat"} /\ last.intent # "none"

AppendedItem ==
    LET key   == IF last.intent = "AddProject" THEN "projects" ELSE "services"
        items == Get(last.doc, key, <<>>)
    IN  items[Len(items)]

\* C10: a generated payload is applied only if it passes its threshold: a bio
\* longer than 20, a headline longer than 5, a title longer than 2, an item with a
\* non-empty title.
C10_AppliedOnlyIfAccepted ==
    (Classified /\ last.changed) =>
        /\ last.intent = "UpdateBio" => Len(last.doc.bio) > BioMinLen
        /\ last.intent = "UpdateHeadline" => Len(last.doc.headline) > HeadlineMinLen
        /\ last.intent = "UpdateTitle" => Len(last.doc.title) > TitleMinLen
        /\ last.intent \in {"AddProject", "AddService"} => AppendedItem.title # <<>>

\* C10: an item whose title is the empty string was appended.
C10_EmptyTitleAppended ==
    /\ Classified
    /\ last.changed
    /\ last.intent \in {"AddProject", "AddService"}
    /\ AppendedItem.title = <<>>
    /\ Len(Get(last.doc, "projects", <<>>)) + Len(Get(last.doc, "services", <<>>))
         > Len(Get(last.before, "projects", <<>>)) + Len(Get(last.before, "services", <<>>))
\* the branch the classifier of the program takes for the utterance handled last
LastIntent == IF last.who = "manager" THEN MgrIntent(last.u) ELSE ChatIntent(last.u)

\* the last step handled an utterance in the manager or the chat window
Conversed == Handled /\ last.who \in {"manager", "chat"}

\* the reply holds white space and quotes only
Blank(text) == \A i \in 1..Len(text) : text[i] \in SpaceChars \cup QuoteChars

\* the reply holds no JSON object and no title fragment
NoItemIn(resp) ==
    /\ resp.fenced.st # "obj"
    /\ resp.raw.st # "obj"
    /\ resp.titled.st # "obj"
    /\ resp.whole.st # "obj"
    /\ ~resp.tfrag.found

\* the generative call failed, returned empty text, or returned nothing to extract
NoPayload(intent, resp) ==
    \/ resp.fail
    \/ resp.text = <<>>
    \/ intent \in {"UpdateBio", "UpdateHeadline", "UpdateTitle"} /\ Blank(resp.text)
    \/ intent \in {"AddProject", "AddService"} /\ NoItemIn(resp)

\* C11: an UpdateField or AddItem utterance whose generative call failed, returned
\* empty text, or returned nothing the extractor can use leaves the document as
\* it was, reports changed = false, and is followed by no save and no git command.
C11_NoPayloadNoChange ==
    (/\ Conversed
     /\ LastIntent \in {"UpdateBio", "UpdateHeadline", "UpdateTitle", "AddProject", "AddService"}
     /\ NoPayload(LastIntent, last.resp)) =>
        /\ ~last.changed
        /\ last.doc = last.before
        /\ last.save = "none"
        /\ last.sync = "none"
        /\ last.cmds = <<>>

\* C11: a bio request got a reply of white space longer than the threshold and the
\* document stayed as it was.
C11_BlankReplyIgnored ==
    /\ Conversed
    /\ LastIntent = "UpdateBio"
    /\ ~last.resp.fail
    /\ Len(last.resp.text) > BioMinLen
    /\ Blank(last.resp.text)
    /\ last.doc = last.before
\* the list of the document an item of the kind goes to
ListOf(kind) == IF kind = kProject THEN "projects" ELSE "services"

\* the item an add of the kind makes of a title and a description
NewItem(kind, title, description) ==
    IF kind = kProject
    THEN [title |-> title, description |-> description, image |-> DefaultImage]
    ELSE [title |-> title, description |-> description]

\* the last step added the item to the end of its list and left the other list alone
AppendedTo(kind, title, description) ==
    LET key   == ListOf(kind)
        other == ListOf(CHOOSE k \in ItemKinds : k # kind)
    IN  /\ Get(last.doc, key, <<>>)
             = Append(Get(last.before, key, <<>>), NewItem(kind, title, description))
        /\ Get(last.doc, other, <<>>) = Get(last.before, other, <<>>)

\* C12: an add that is applied, from an utterance or from a PORTFOLIO_ADD token,
\* appends exactly one item with the payload's title and description at the end of
\* its list, also when the list holds the title already, leaves the earlier items
\* as they were, and gives a project the default image; the token
\* [PORTFOLIO_ADD: project | Orbit | A tracking tool] on an empty projects list
\* yields that one item.
C12_AppendsOneItem ==
    /\ (Conversed /\ last.changed /\ last.intent \in {"AddProject", "AddService"}) =>
          AppendedTo(IF last.intent = "AddProject" THEN kProject ELSE kService,
                     last.resp.whole.obj.title, last.resp.whole.obj.description)
    /\ (Handled /\ last.who = "watcher" /\ last.load = "ok" /\ last.changed) =>
          /\ \A kind \in ItemKinds :
                last.u = AddToken(kind, <<"A","b">>, <<"d">>) =>
                    AppendedTo(kind, <<"A","b">>, <<"d">>)
          /\ last.u = tOrbit => AppendedTo(kProject, Orbit, TrackingTool)
          /\ (last.u = tOrbit /\ last.before.projects = <<>>) =>
                last.doc.projects
                    = << [title |-> Orbit, description |-> TrackingTool,
                          image |-> DefaultImage] >>

\* C12: a project was added to a list that held its title already, and the list now
\* holds the title twice.
C12_SameTitleTwice ==
    /\ Handled
    /\ last.changed
    /\ Len(Get(last.before, "projects", <<>>)) = 1
    /\ Len(Get(last.doc, "projects", <<>>)) = 2
    /\ last.doc.projects[1].title = last.doc.projects[2].title
    /\ last.doc.projects[2].image = DefaultImage
\* the last step is a call of process_commands that got a document to work on
Executed == Handled /\ last.who = "watcher" /\ last.load = "ok" /\ last.before # EmptyMap

\* the offsets at which a bracketed token of the text starts
Brackets(t) == {i \in 0..Len(t) : MatchAtCI(cMARK, t, i)}

\* the token that starts at the offset: up to the first closing bracket, or up to
\* the next opening bracket or the end of the text when none comes before
TokenAt(t, i) ==
    LET ends == {j \in (i + 2)..Len(t) : t[j] = "]"}
                    \cup {j - 1 : j \in {k \in (i + 2)..Len(t) : t[k] = "["}}
                    \cup {Len(t)}
    IN  SubSeq(t, i + 1, Min(ends))

\* the token, taken alone, is an add of the kind with a title and a description
WellFormedAdd(tok, kind) ==
    LET k == TokenHead(tok, 0, cADD, kind)
    IN  k > 0 /\ AddTail(tok, k).found

\* the token, taken alone, is an edit or a removal of the field with a value
WellFormedPlain(tok, head, field) ==
    LET k == TokenHead(tok, 0, head, field)
    IN  k > 0 /\ TokenTail(tok, k).found

\* the fields of the edit tokens
EditFields == {kBio, kHeadline, kTitle, kEmail}

\* the token, taken alone, matches one of the eight patterns
WellFormed(tok) ==
    \/ \E field \in EditFields : WellFormedPlain(tok, cEDIT, field)
    \/ \E kind \in ItemKinds : WellFormedPlain(tok, cREMOVE, kind) \/ WellFormedAdd(tok, kind)

AddCount(t, kind) == Cardinality({i \in Brackets(t) : WellFormedAdd(TokenAt(t, i), kind)})

\* C13: one call of process_commands applies every token of a text whose tokens
\* are all well-formed: without removals in the text, each list grows by the
\* number of add tokens of its kind.
C13_EveryTokenApplied ==
    (/\ Executed
     /\ \A i \in Brackets(last.u) : WellFormed(TokenAt(last.u, i))
     /\ \A i \in 0..Len(last.u) : ~MatchAtCI(cREMOVE, last.u, i)) =>
        \A kind \in ItemKinds :
            Len(Get(last.doc, ListOf(kind), <<>>))
                = Len(Get(last.before, ListOf(kind), <<>>)) + AddCount(last.u, kind)

\* C13: a text with two add-project tokens was executed and saved, and one project
\* was added.
C13_SecondTokenDropped ==
    /\ Executed
    /\ last.u = tTwoAdds
    /\ AddCount(last.u, kProject) = 2
    /\ last.save = "ok"
    /\ Len(last.doc.projects) = Len(last.before.projects) + 1
    /\ last.doc.projects[Len(last.doc.projects)].title = <<"A","b">>
\* the text holds bracketed tokens and none of them is well-formed
AllMalformed(t) == Brackets(t) # {} /\ \A i \in Brackets(t) : ~WellFormed(TokenAt(t, i))

\* C14: a text whose bracketed tokens are all malformed is executed without a
\* mutation: the document is unchanged, process_commands returns False, nothing
\* is saved and no git command runs.
C14_MalformedIgnored ==
    (Executed /\ AllMalformed(last.u)) =>
        /\ ~last.changed
        /\ last.doc = last.before
        /\ last.save = "none"
        /\ last.sync = "none"
        /\ last.cmds = <<>>

\* C14: an add token without a description, followed by an edit token with an
\* unknown field, added a project and the document was saved.
C14_MalformedPairApplied ==
    /\ Executed
    /\ last.u = tShortAdd \o <<" ">> \o tUnknownField
    /\ AllMalformed(last.u)
    /\ last.changed
    /\ last.save = "ok"
    /\ Len(last.doc.projects) = Len(last.before.projects) + 1
\* a is b with some elements left out and the others in their order
IsOrderedSub(a, b) ==
    \E S \in SUBSET (1..Len(b)) :
        /\ Cardinality(S) = Len(a)
        /\ \A i \in 1..Len(a) :
              a[i] = b[CHOOSE x \in S : Cardinality({y \in S : y <= x}) = i]

\* the input handled last asks for an item to be added
AsksAdd ==
    IF last.who = "watcher" THEN \E i \in 0..Len(last.u) : MatchAtCI(cADD, last.u, i)
    ELSE last.intent \in {"AddProject", "AddService"}

\* the new list is the old one with items left out and, after an add, one item more
OrderKept(old, new) ==
    \/ IsOrderedSub(new, old)
    \/ AsksAdd /\ new # <<>> /\ IsOrderedSub(SubSeq(new, 1, Len(new) - 1), old)

DirectIntents == {"UpdateEmail", "RemoveProject", "RemoveService"}

\* the utterance handled last holds an address, or a hint that some item matches
DirectEditApplies ==
    IF LastIntent = "UpdateEmail" THEN HasEmailShape(last.u)
    ELSE LET kind == IF LastIntent = "RemoveProject" THEN kProject ELSE kService
             key  == IF LastIntent = "RemoveProject" THEN "projects" ELSE "services"
             m    == RemoveHintSearch(Lower(last.u), kind)
             old  == Get(last.before, key, <<>>)
         IN  m.found /\ KeepOthers(old, Strip(m.val)) # old

\* C16: handling an email or a removal utterance never calls the generative
\* backend, and an utterance that holds an address or a hint matching an item
\* changes the document whatever the backend replies, unless the user declines
\* the change at the prompt.
C16_DirectEditsSkipBackend ==
    (Conversed /\ LastIntent \in DirectIntents /\ ~last.raised) =>
        /\ ~last.asked
        /\ (DirectEditApplies /\ last.confirm \in {kYes, NoAnswer}) => last.changed

\* C16: the chat window asked the backend about a removal that matches a project,
\* got no reply, and left the project in the document.
C16_RemovalLostWithoutReply ==
    /\ Handled
    /\ last.who = "chat"
    /\ LastIntent = "RemoveProject"
    /\ DirectEditApplies
    /\ last.asked
    /\ ~Truthy(last.resp)
    /\ ~last.changed
    /\ last.doc = last.before
    /\ Len(Get(last.doc, "projects", <<>>)) = 1

\* C17: the chat window handles one utterance to completion before it accepts the
\* next: at no time are two process_message threads running.
C17_OneThreadAtATime == Len(chatThreads) <= 1

\* C17: with the Send button disabled and one thread still running, <Return> in
\* the input field started a second thread.
C17_SecondThreadStarted ==
    /\ chatPc = "open"
    /\ ~sendBtn
    /\ Len(chatThreads) = 2

\* the save of the step handled last did not fail
SaveNotFailed == last.save \notin {"fail", "partial"}

\* C18: after a save of the document failed, no program applies a further
\* mutation in that session.
C18_NoEditAfterFailedSave == (Handled /\ last.changed /\ SaveNotFailed) => ~faulted

\* C18: a save failed earlier in the session, and the watcher or the chat window
\* then changed the document and saved it.
C18_EditedAfterFailedSave ==
    /\ faulted
    /\ Handled
    /\ last.who \in {"watcher", "chat"}
    /\ last.changed
    /\ last.save = "ok"
    /\ last.doc # last.before

\* C19: applying an edit of the classifier or of the token parser to a document
\* that load accepted never raises, whatever the tree contains.
C19_MutationNeverRaises == Handled => ~last.raised

\* C19: a removal met a project whose title is null and left by an exception: the
\* project that matches the hint is still in the document and nothing was saved.
C19_RemovalRaisedOnNullTitle ==
    /\ Handled
    /\ last.raised
    /\ RemovalRaises(Get(last.before, "projects", <<>>))
    /\ Len(Get(last.before, "projects", <<>>)) = 2
    /\ ~last.changed
    /\ last.doc = last.before
    /\ last.save = "none"

\* the document the last step started from holds some of the keys and no other
FromPartial == Handled /\ last.before \in PartialDocs

\* C20: a document loaded from a source that lacks any of the keys, or all of
\* them, is handled as a valid document: no step raises on it, and the watcher
\* executes the tokens of the text on it as on any other document.
C20_PartialDocumentsValid ==
    FromPartial =>
        /\ ~last.raised
        /\ (last.who = "watcher" /\ last.load = "ok") =>
              LET r == process_commands(last.u, last.before)
              IN  last.changed = r.changed /\ last.doc = r.portfolio

\* C20: the watcher loaded a document without keys, found a bio token in the
\* text, and executed nothing.
C20_EmptyDocumentRejected ==
    /\ Handled
    /\ last.who = "watcher"
    /\ last.load = "ok"
    /\ last.before = EmptyMap
    /\ TokenSearch(last.u, cEDIT, kBio).found
    /\ ~last.changed
    /\ last.doc = EmptyMap
    /\ disk = OnDisk(EmptyMap)

\* C21: in the manager, the chat window and the watcher, the publish of a handled
\* input is attempted only after the save of that input succeeded; a save that
\* failed is followed by no stage, no commit and no push.
C21_PublishOnlyAfterSave ==
    Handled =>
        /\ (last.sync # "none" \/ last.cmds # <<>>) => last.save = "ok"
        /\ last.save \in {"fail", "partial"} =>
              /\ last.sync = "none"
              /\ last.cmds = <<>>
              /\ pending = last.pend

\* C21: a change was made, its save failed, and no git command was run for it.
C21_FailedSaveNotPublished ==
    /\ Handled
    /\ last.changed
    /\ last.save \in {"fail", "partial"}
    /\ last.sync = "none"
    /\ last.cmds = <<>>

\* the field a scalar update writes and the cap the contract puts on it
CapOf(intent) ==
    CASE intent = "UpdateHeadline" -> [key |-> "headline", cap |-> HeadlineCap]
      [] intent = "UpdateTitle" -> [key |-> "title", cap |-> TitleCap]
      [] OTHER -> [key |-> "bio", cap |-> BioCap]

ScalarIntents == {"UpdateBio", "UpdateHeadline", "UpdateTitle"}

\* C22: right after a scalar update of the manager or of the chat window the
\* written headline has at most 100 characters, the written title at most 200 and
\* the written bio at most 500.
C22_WrittenWithinCap ==
    (Conversed /\ last.changed /\ last.intent \in ScalarIntents) =>
        Len(last.doc[CapOf(last.intent).key]) <= CapOf(last.intent).cap

\* C22: the manager wrote a headline of more than 100 characters.
C22_ManagerWroteLongHeadline ==
    /\ Handled
    /\ last.who = "manager"
    /\ last.intent = "UpdateHeadline"
    /\ last.changed
    /\ last.confirm = kYes
    /\ Len(last.doc.headline) = HeadlineCap + 1
    /\ last.save = "ok"

\* the kind extract_content is called with for the utterance handled last
KindOf(intent) == IF intent = "UpdateHeadline" THEN "headline" ELSE "title"

\* C23: for every reply, what extract_content returns for the kind headline and
\* for the kind title holds no newline character.
C23_FirstLineOnly ==
    (Handled /\ last.who = "chat" /\ last.intent \in {"UpdateHeadline", "UpdateTitle"}) =>
        "\n" \notin Range(extract_content(last.resp.text, KindOf(last.intent)))

\* C23: the chat window wrote and saved a title that holds a newline, extracted
\* from a reply of several lines.
C23_TitleOfTwoLines ==
    /\ Handled
    /\ last.who = "chat"
    /\ last.intent = "UpdateTitle"
    /\ last.changed
    /\ "\n" \in Range(last.doc.title)
    /\ last.doc.title = extract_content(last.resp.text, "title")
    /\ disk.doc = last.doc

\* the watcher has taken the text of the clipboard as seen, and the stored
\* document is one it executes commands on
SeenClipboard ==
    /\ wPc = "running"
    /\ clipboard # <<>>
    /\ last_clipboard = clipboard
    /\ disk.st = "ok"
    /\ disk.doc # EmptyMap

\* C24: a polled text that holds a bio token, its keyword in any letter case and
\* its payload with or without line breaks, is detected and applied: once the
\* watcher has seen the text, the stored bio is the payload up to the closing
\* bracket.
C24_AnyCaseApplied ==
    LET m == TokenSearch(clipboard, cEDIT, kBio)
    IN  (SeenClipboard /\ m.found) => Get(disk.doc, "bio", <<>>) = Strip(m.val)

\* C24: the watcher has seen a text whose bio token is in lower case and has not
\* called process_commands for it.
C24_LowerCaseSkipped ==
    /\ SeenClipboard
    /\ clipboard = tLowerCase
    /\ TokenSearch(clipboard, cEDIT, kBio).found
    /\ runCalls = 0
    /\ ~Has(disk.doc, "bio")

\* the top-level keys the input handled last addresses with a scalar or an email
\* update, and whether it addresses nothing else
EditTargets ==
    IF last.who = "watcher"
    THEN {k \in {"bio", "headline", "title"} :
            TokenSearch(last.u, cEDIT, CASE k = "bio" -> kBio
                                         [] k = "headline" -> kHeadline
                                         [] OTHER -> kTitle).found}
         \cup (IF TokenSearch(last.u, cEDIT, kEmail).found THEN {"contact"} ELSE {})
    ELSE IF last.intent = "UpdateEmail" THEN {"contact"}
    ELSE IF last.intent \in ScalarIntents THEN {CapOf(last.intent).key}
    ELSE {}

OnlyEdits ==
    /\ Handled
    /\ last.changed
    /\ IF last.who = "watcher"
       THEN \A i \in 0..Len(last.u) : ~MatchAtCI(cADD, last.u, i) /\ ~MatchAtCI(cREMOVE, last.u, i)
       ELSE last.intent \in ScalarIntents \cup {"UpdateEmail"}

\* C25: a scalar update changes only the addressed field, and an email update
\* makes the contact map when it is absent and otherwise changes only its email
\* entry: every other entry of the contact, every other scalar and both lists are
\* as they were.
C25_OnlyAddressedFieldChanges ==
    OnlyEdits =>
        LET old == Get(last.before, "contact", EmptyMap)
            new == Get(last.doc, "contact", EmptyMap)
        IN  /\ DOMAIN last.doc = DOMAIN last.before \cup EditTargets
            /\ \A k \in DOMAIN last.before \ EditTargets : last.doc[k] = last.before[k]
            /\ "contact" \in EditTargets =>
                  /\ DOMAIN new = DOMAIN old \cup {"email"}
                  /\ \A e \in DOMAIN old \ {"email"} : new[e] = old[e]

\* C25: an email update changed the address of a contact that holds a phone and a
\* social map, and both are as they were.
C25_SocialKept ==
    /\ OnlyEdits
    /\ "contact" \in EditTargets
    /\ Has(last.before, "contact")
    /\ Has(last.before.contact, "social")
    /\ last.doc.contact.email # last.before.contact.email
    /\ last.doc.contact.social = last.before.contact.social
    /\ last.doc.contact.phone = last.before.contact.phone

\* the manager showed a prompt for the utterance handled last
Prompted == Handled /\ last.who = "manager" /\ last.answer # NoAnswer

\* nothing was changed, saved or published
NothingDone ==
    /\ ~last.changed
    /\ last.doc = last.before
    /\ last.save = "none"
    /\ last.sync = "none"
    /\ last.cmds = <<>>

\* C26: in the manager a candidate of a scalar update, an email update or an add
\* is applied only after an answer that is 'y' once stripped and lower-cased; any
\* other answer leaves the document unchanged, gives changed = false, and
\* nothing is saved or published.
C26_AppliedOnlyWhenAffirmed ==
    /\ (Handled /\ last.who = "manager" /\ last.changed
          /\ last.intent \in ScalarIntents \cup {"UpdateEmail", "AddProject", "AddService"}) =>
            Lower(Strip(last.answer)) = kYes
    /\ (Prompted /\ Lower(Strip(last.answer)) # kYes) => NothingDone

\* C26: the candidate was shown and the answer 'yes' left everything as it was.
C26_DeclinedWithYes ==
    /\ Prompted
    /\ last.answer = <<"y","e","s">>
    /\ last.intent \in ScalarIntents \cup {"UpdateEmail", "AddProject", "AddService"}
    /\ NothingDone

\* C26 as stated: the candidate is applied only after the answer 'y', and any other
\* answer leaves the document unchanged.
C26_OnlyTheAnswerY == (Prompted /\ last.answer # kYes) => NothingDone

\* a process_message thread of the chat window ends in this step
ChatStepped == Len(chatThreads') < Len(chatThreads)

\* C27: the chat session keeps the document it loaded at its start: no step of
\* another writer changes the session's copy, and a successful save of the
\* session leaves the stored document equal to that copy, computed from the copy
\* the session held before and not from the file.
C27_SessionCopyWins ==
    [][chatPc = "open" =>
         /\ ~ChatStepped => chatPortfolio' = chatPortfolio
         /\ (ChatStepped /\ last'.save = "ok") =>
               /\ disk' = OnDisk(chatPortfolio')
               /\ last'.before = chatPortfolio
               /\ last'.intent = "UpdateBio" =>
                     \A k \in DOMAIN chatPortfolio' \ {"bio"} :
                         Has(chatPortfolio, k) /\ chatPortfolio'[k] = chatPortfolio[k]]_vars

\* C27: the watcher stored a new headline after the session had started, and the
\* session's save of a bio left the stored document without a headline.
C27_WatcherEditLost ==
    /\ Handled /\ last.who = "chat" /\ last.save = "ok"
    /\ last_clipboard = tHeadline
    /\ disk.doc = chatPortfolio
    /\ ~Has(disk.doc, "headline")
    /\ disk.doc.bio # Doc0.bio

\* the watcher applied a text that holds an ADD and a REMOVE token of the kind
AddAndRemove(kind) ==
    /\ Handled /\ last.who = "watcher" /\ ~last.raised
    /\ last.load = "ok" /\ last.before # EmptyMap
    /\ AddSearch(last.u, kind).found
    /\ TokenSearch(last.u, cREMOVE, kind).found

ListKey(kind) == IF kind = kProject THEN "projects" ELSE "services"

\* C28: when one text holds an ADD and a REMOVE token of the same kind, in either
\* order, the removal is applied to the list that already holds the added item:
\* no title of the result contains the hint, the items kept are the earlier ones
\* that do not match followed by the added one when it does not match, and the
\* step counts as a change.
C28_RemovalAfterAddition ==
    \A kind \in ItemKinds :
        AddAndRemove(kind) =>
            LET key    == ListKey(kind)
                hint   == Lower(Strip(TokenSearch(last.u, cREMOVE, kind).val))
                title  == Strip(AddSearch(last.u, kind).g1)
                old    == Get(last.before, key, <<>>)
                result == Get(last.doc, key, <<>>)
                kept   == KeepOthers(old, hint)
            IN  /\ last.changed
                /\ \A i \in 1..Len(result) : ~Contains(hint, Lower(result[i].title))
                /\ IF Contains(hint, Lower(title)) THEN result = kept
                   ELSE /\ Len(result) = Len(kept) + 1
                        /\ SubSeq(result, 1, Len(kept)) = kept
                        /\ result[Len(result)].title = title

\* C28: the REMOVE token came first in the text and the item of the ADD token
\* after it is not in the list.
C28_AddedItemRemoved ==
    /\ AddAndRemove(kProject)
    /\ last.u = RemoveToken(kProject, <<"a","b">>) \o <<" ">> \o AddToken(kProject, <<"A","b">>, <<"d">>)
    /\ Get(last.before, "projects", <<>>) # <<>>
    /\ last.doc = last.before
    /\ last.changed

\* C29: a snapshot handed to process_commands becomes the last-seen value in the
\* same turn of the loop, whatever the outcome of its processing, and the
\* last-seen value changes to nothing but the non-empty text just read.
C29_LastSeenFollowsSnapshots ==
    [][/\ runCalls' > runCalls => last_clipboard' = clipboard
       /\ last_clipboard' # last_clipboard =>
             (wPc = "running" /\ clipboard # <<>> /\ last_clipboard' = clipboard)]_vars

\* C29: the clipboard did not change and its commands ran a second time, on the
\* document the first run had stored.
C29_SameSnapshotRunTwice ==
    /\ Handled /\ last.who = "watcher"
    /\ runCalls >= 2
    /\ last.u = clipboard
    /\ last.again /\ last.prevChanged /\ last.changed
    /\ last_clipboard # clipboard

\* C30: whenever the send button of the chat window is disabled it is enabled
\* again later: every submitted message ends in reset_ui, whatever the outcome
\* of the backend call, the extraction, the save and the push.
C30_EveryMessageResetsUi == (chatPc = "open" /\ ~sendBtn) ~> sendBtn

\* C30: the thread of the only message ended at a failed save and the button is
\* still disabled.
C30_ButtonLeftDisabled ==
    /\ chatPc = "open"
    /\ chatThreads = <<>>
    /\ ~sendBtn
    /\ Handled /\ last.who = "chat"
    /\ last.save \in {"fail", "partial"}
====
